---- MODULE Spec2Model ----
(***************************************************************************)
(* Hive coordination of autognosis nodes: the knowledge store (AtomSpace), *)
(* the knowledge-packet codec, the healing escalation workflow, the        *)
(* message envelope / dispatcher and the coordinator's periodic cycle, as  *)
(* implemented in src/autognosis/autognosis.c and                          *)
(* src/autognosis/hive_coordination.c.                                     *)
(*                                                                         *)
(* C floats are modelled as exact rationals [n, d] in lowest terms         *)
(* (rounding of the 32-bit float arithmetic is abstracted away).  C        *)
(* strings are sequences of characters; a character is a TLA+ string.      *)
(* time(NULL) is the variable now, advanced by the environment.            *)
(***************************************************************************)
EXTENDS Integers, Sequences, FiniteSets, TLC

(***************************************************************************)
(* Float arithmetic as exact rationals.                                    *)
(***************************************************************************)
RECURSIVE GCD(_, _)
GCD(a, b) ==
    IF b = 0 THEN a ELSE GCD(b, a % b)

Abs(x) ==
    IF x < 0 THEN -x ELSE x

R(n, d) ==
    LET g == GCD(Abs(n), Abs(d))
        s == IF d < 0 THEN -1 ELSE 1
    IN  [n |-> (s * n) \div g, d |-> (s * d) \div g]

RAdd(x, y) ==
    R(x.n * y.d + y.n * x.d, x.d * y.d)

RMul(x, y) ==
    R(x.n * y.n, x.d * y.d)

RDiv(x, y) ==
    R(x.n * y.d, x.d * y.n)

RGt(x, y) ==
    x.n * y.d > y.n * x.d

RLt(x, y) ==
    RGt(y, x)

RLe(x, y) ==
    ~RGt(x, y)

Zero == R(0, 1)
One == R(1, 1)
Half == R(1, 2)

(***************************************************************************)
(* C strings.                                                              *)
(***************************************************************************)
Min(a, b) ==
    IF a < b THEN a ELSE b

\* strncpy(dst, src, n) into a zeroed buffer: the first n characters of src
strncpy(src, n) ==
    SubSeq(src, 1, Min(Len(src), n))

\* strstr(haystack, needle) != NULL
strstr(haystack, needle) ==
    \E i \in 1..(Len(haystack) + 1) :
        /\ i + Len(needle) - 1 <= Len(haystack)
        /\ SubSeq(haystack, i, i + Len(needle) - 1) = needle

\* a string of n copies of the character c
Pad(c, n) ==
    [i \in 1..n |-> c]

(***************************************************************************)
(* Program constants.                                                      *)
(***************************************************************************)
NAME_SIZE == 256
PACKET_NAME_SIZE == 256
HEARTBEAT_INTERVAL == 30
SYNC_INTERVAL == 60
SHARE_WINDOW == 300

ATOM_NODE == 0
ATOM_LINK == 1
ATOM_CONCEPT == 2
ATOM_PREDICATE == 3
ATOM_EVALUATION == 4

DefaultTruth == Half
DefaultConfidence == Half
DefaultImportance == One
ImportanceBump == R(1, 10)

(***************************************************************************)
(* AtomSpace: a singly linked list of atoms, newest first.                 *)
(***************************************************************************)
atomspace_create ==
    [atoms |-> <<>>, atom_count |-> 0, next_id |-> 1]

\* index of the first atom whose stored name strcmp-equals name, 0 for NULL
atomspace_find_atom(space, name) ==
    LET hits == {i \in 1..Len(space.atoms) : space.atoms[i].name = name}
    IN  IF hits = {} THEN 0
        ELSE CHOOSE i \in hits : \A j \in hits : i <= j

\* a faulty upsert: a reference to an existing atom refreshes its timestamp
atomspace_add_atom_touching(space, type, name, t) ==
    LET existing == atomspace_find_atom(space, name)
    IN  IF existing # 0
        THEN [space |-> [space EXCEPT !.atoms[existing].importance =
                                          RAdd(@, ImportanceBump),
                                      !.atoms[existing].timestamp = t],
              idx   |-> existing]
        ELSE LET atom == [id          |-> space.next_id,
                          type        |-> type,
                          name        |-> strncpy(name, NAME_SIZE - 1),
                          truth_value |-> DefaultTruth,
                          confidence  |-> DefaultConfidence,
                          importance  |-> DefaultImportance,
                          timestamp   |-> t]
             IN  [space |-> [atoms      |-> <<atom>> \o space.atoms,
                             atom_count |-> space.atom_count + 1,
                             next_id    |-> space.next_id + 1],
                  idx   |-> 1]

\* [space, idx]: the store afterwards and the index of the returned atom
atomspace_add_atom(space, type, name, t) ==
    LET existing == atomspace_find_atom(space, name)
    IN  IF existing # 0
        THEN [space |-> [space EXCEPT !.atoms[existing].importance =
                                          RAdd(@, ImportanceBump)],
              idx   |-> existing]
        ELSE LET atom == [id          |-> space.next_id,
                          type        |-> type,
                          name        |-> strncpy(name, NAME_SIZE - 1),
                          truth_value |-> DefaultTruth,
                          confidence  |-> DefaultConfidence,
                          importance  |-> DefaultImportance,
                          timestamp   |-> t]
             IN  [space |-> [atoms      |-> <<atom>> \o space.atoms,
                             atom_count |-> space.atom_count + 1,
                             next_id    |-> space.next_id + 1],
                  idx   |-> 1]

\* a faulty merge: the weighted sum of the truths is not divided
atomspace_update_truth_value_sum(atom, truth, confidence, t) ==
    LET total_confidence == RAdd(atom.confidence, confidence)
        new_truth == RAdd(RMul(atom.truth_value, atom.confidence),
                          RMul(truth, confidence))
        halved    == RDiv(total_confidence, R(2, 1))
    IN  IF RGt(total_confidence, Zero)
        THEN [atom EXCEPT !.truth_value = new_truth,
                          !.confidence  = IF RGt(halved, One) THEN One
                                          ELSE halved,
                          !.timestamp   = t]
        ELSE [atom EXCEPT !.timestamp = t]

\* a faulty merge: the plain mean of the two truths, ignoring the weights
atomspace_update_truth_value_unweighted(atom, truth, confidence, t) ==
    LET total_weight == RAdd(atom.confidence, confidence)
        averaged     == RDiv(total_weight, R(2, 1))
    IN  IF RGt(total_weight, Zero)
        THEN [atom EXCEPT !.truth_value = RDiv(RAdd(@, truth), R(2, 1)),
                          !.confidence  = IF RGt(averaged, One) THEN One
                                          ELSE averaged,
                          !.timestamp   = t]
        ELSE [atom EXCEPT !.timestamp = t]

\* the atom after atomspace_update_truth_value(atom, truth, confidence)
\* a faulty merge: the truth value goes past the incoming one
atomspace_update_truth_value_past(atom, truth, confidence, t) ==
    LET total_weight == RAdd(atom.confidence, confidence)
        averaged     == RDiv(total_weight, R(2, 1))
        opposite     == RAdd(truth,
                             RAdd(truth, RMul(R(-1, 1), atom.truth_value)))
    IN  IF RGt(total_weight, Zero)
        THEN [atom EXCEPT !.truth_value = opposite,
                          !.confidence  = IF RGt(averaged, One) THEN One
                                          ELSE averaged,
                          !.timestamp   = t]
        ELSE [atom EXCEPT !.timestamp = t]

atomspace_update_truth_value(atom, truth, confidence, t) ==
    LET old_weight   == atom.confidence
        new_weight   == confidence
        total_weight == RAdd(old_weight, new_weight)
        blended      == RDiv(RAdd(RMul(atom.truth_value, old_weight),
                                  RMul(truth, new_weight)),
                             total_weight)
        averaged     == RDiv(total_weight, R(2, 1))
    IN  IF RGt(total_weight, Zero)
        THEN [atom EXCEPT !.truth_value = blended,
                          !.confidence  = IF RGt(averaged, One) THEN One
                                          ELSE averaged,
                          !.timestamp   = t]
        ELSE [atom EXCEPT !.timestamp = t]

(***************************************************************************)
(* Knowledge-packet codec.                                                 *)
(***************************************************************************)
\* a faulty encoder: the packet carries the default importance
knowledge_packet_from_atom_default_importance(atom) ==
    [atom_name   |-> strncpy(atom.name, PACKET_NAME_SIZE - 1),
     atom_type   |-> atom.type,
     truth_value |-> atom.truth_value,
     confidence  |-> atom.confidence,
     importance  |-> DefaultImportance,
     timestamp   |-> atom.timestamp]

knowledge_packet_from_atom(atom) ==
    [atom_name   |-> strncpy(atom.name, PACKET_NAME_SIZE - 1),
     atom_type   |-> atom.type,
     truth_value |-> atom.truth_value,
     confidence  |-> atom.confidence,
     importance  |-> atom.importance,
     timestamp   |-> atom.timestamp]

\* a faulty decoder: the local timestamp set by the merge is kept
knowledge_packet_to_atom_keep_time(space, packet, t) ==
    LET added   == atomspace_add_atom(space, packet.atom_type,
                                      packet.atom_name, t)
        i       == added.idx
        updated == atomspace_update_truth_value(added.space.atoms[i],
                       packet.truth_value, packet.confidence, t)
    IN  [space |-> [added.space EXCEPT !.atoms[i] =
                       [updated EXCEPT !.importance = packet.importance]],
         idx   |-> i]

\* [space, idx]: the store after integrating packet, and the atom's index
knowledge_packet_to_atom(space, packet, t) ==
    LET added   == atomspace_add_atom(space, packet.atom_type,
                                      packet.atom_name, t)
        i       == added.idx
        updated == atomspace_update_truth_value(added.space.atoms[i],
                       packet.truth_value, packet.confidence, t)
    IN  [space |-> [added.space EXCEPT !.atoms[i] =
                       [updated EXCEPT !.importance = packet.importance,
                                       !.timestamp  = packet.timestamp]],
         idx   |-> i]

(***************************************************************************)
(* Network topology, healing rules and the engine after autognosis_create. *)
(***************************************************************************)
topology_create ==
    [nodes |-> <<>>, node_count |-> 0, overall_health |-> One]

HEALING_NONE == 0
HEALING_RETRY == 1
HEALING_REROUTE == 2
HEALING_RECONSTRUCT == 3
HEALING_MIGRATE == 4

healing_create_rule(condition, action, confidence) ==
    [condition     |-> strncpy(condition, NAME_SIZE - 1),
     action        |-> action,
     confidence    |-> confidence,
     success_count |-> 0,
     attempt_count |-> 0]

\* the rule list after healing_add_rule: the new rule becomes the head
healing_add_rule(rules, rule) ==
    <<rule>> \o rules

\* the rules autognosis_create installs: retry, reroute, migrate, each
\* pushed at the head
DefaultRules ==
    healing_add_rule(
        healing_add_rule(
            healing_add_rule(<<>>,
                healing_create_rule(<<"timeout">>, HEALING_RETRY, R(7, 10))),
            healing_create_rule(<<"connection_failed">>, HEALING_REROUTE,
                                R(8, 10))),
        healing_create_rule(<<"node_failure">>, HEALING_MIGRATE, R(9, 10)))

InitialAutonomy == Half

(***************************************************************************)
(* Topology.  A node's last_seen and the topology's last_update are only   *)
(* ever written by the code, never read; they are left out.                *)
(***************************************************************************)
HealthyAbove == R(1, 10)

topology_find_node(topo, id) ==
    LET hits == {i \in 1..Len(topo.nodes) : topo.nodes[i].node_id = id}
    IN  IF hits = {} THEN 0
        ELSE CHOOSE i \in hits : \A j \in hits : i <= j

\* a faulty insertion: the node is added without looking for its id
topology_add_node_again(topo, id, address) ==
    [topo EXCEPT !.nodes = <<[node_id      |-> id,
                              address      |-> address,
                              health_score |-> One,
                              trust_level  |-> Half]>> \o @,
                 !.node_count = @ + 1]

topology_add_node(topo, id, address) ==
    IF topology_find_node(topo, id) # 0
    THEN [topo EXCEPT !.nodes[topology_find_node(topo, id)].address = address]
    ELSE [topo EXCEPT !.nodes = <<[node_id      |-> id,
                                   address      |-> address,
                                   health_score |-> One,
                                   trust_level  |-> Half]>> \o @,
                      !.node_count = @ + 1]

RECURSIVE SumHealthy(_, _)
SumHealthy(nodes, i) ==
    IF i > Len(nodes) THEN Zero
    ELSE IF RGt(nodes[i].health_score, HealthyAbove)
         THEN RAdd(nodes[i].health_score, SumHealthy(nodes, i + 1))
         ELSE SumHealthy(nodes, i + 1)

topology_update_node_health(topo, id, health) ==
    LET i       == topology_find_node(topo, id)
        nodes   == IF i = 0 THEN topo.nodes
                   ELSE [topo.nodes EXCEPT ![i].health_score = health]
        healthy == Cardinality({k \in 1..Len(nodes) :
                       RGt(nodes[k].health_score, HealthyAbove)})
    IN  [topo EXCEPT !.nodes = nodes,
                     !.overall_health =
                         IF healthy > 0
                         THEN RDiv(SumHealthy(nodes, 1), R(healthy, 1))
                         ELSE Zero]

(***************************************************************************)
(* Healing rules.                                                          *)
(***************************************************************************)
\* index of best_rule after scanning rules[i..], 0 for NULL
RECURSIVE BestRule(_, _, _, _, _)
BestRule(rules, problem_desc, i, best_rule, best_score) ==
    IF i > Len(rules) THEN best_rule
    ELSE LET current      == rules[i]
             success_rate == IF current.attempt_count > 0
                             THEN R(current.success_count,
                                    current.attempt_count)
                             ELSE Half
             score        == RMul(current.confidence, success_rate)
         IN  IF strstr(problem_desc, current.condition)
                  /\ RGt(score, best_score)
             THEN BestRule(rules, problem_desc, i + 1, i, score)
             ELSE BestRule(rules, problem_desc, i + 1, best_rule,
                           best_score)

\* a faulty evaluation: no applicable rule yields HEALING_NONE
healing_evaluate_problem_none(engine, problem_desc) ==
    LET rules     == engine.healing_rules
        best_rule == BestRule(rules, problem_desc, 1, 0, Zero)
    IN  IF ~engine.present THEN HEALING_NONE
        ELSE IF best_rule # 0 THEN rules[best_rule].action
        ELSE HEALING_NONE

\* engine.present is FALSE for a NULL engine pointer
healing_evaluate_problem(engine, problem_desc) ==
    LET rules     == engine.healing_rules
        best_rule == BestRule(rules, problem_desc, 1, 0, Zero)
    IN  IF ~engine.present THEN HEALING_NONE
        ELSE IF best_rule # 0 THEN rules[best_rule].action
        ELSE HEALING_RETRY

(***************************************************************************)
(* Messages.  sizeof of the three payload structs on an LP64 target.       *)
(***************************************************************************)
HIVE_MSG_HEARTBEAT == 0
HIVE_MSG_KNOWLEDGE_SHARE == 1
HIVE_MSG_HEALING_REQUEST == 2
HIVE_MSG_HEALING_RESPONSE == 3
HIVE_MSG_TOPOLOGY_UPDATE == 4
HIVE_MSG_EMERGENCY_SIGNAL == 5

DATA_SIZE == 512
SIZEOF_KNOWLEDGE_PACKET == 280
SIZEOF_HEALING_REQUEST == 288
SIZEOF_HEALING_RESPONSE == 144
DESCRIPTION_SIZE == 256

NoData == [kind |-> "none"]

hive_message_create(sender, recipient, type, t) ==
    [sender_id       |-> sender,
     recipient_id    |-> recipient,
     type            |-> type,
     sequence_number |-> 0,
     timestamp       |-> t,
     data_length     |-> 0,
     data            |-> NoData]

hive_message_set_data(message, data, length) ==
    IF length > DATA_SIZE THEN message
    ELSE [message EXCEPT !.data = data, !.data_length = length]

(***************************************************************************)
(* The coordinator's operations act on a node record n:                    *)
(*   n.coordinator, n.atomspace, n.topology, n.healing_rules,              *)
(*   n.autonomy_level, n.problem_id_counter and n.outbox, the envelopes    *)
(*   handed to send_message so far.                                        *)
(* n.coordinator.local_engine is TRUE while the coordinator's engine       *)
(* pointer is not NULL.                                                    *)
(***************************************************************************)
\* coordinator->local_engine as the healing functions see it
local_engine(n) ==
    [present       |-> n.coordinator.local_engine,
     healing_rules |-> n.healing_rules]

\* a faulty send: the envelope goes out with the counter's old value
send_message_stale(n, message) ==
    [n EXCEPT !.coordinator.sequence_counter = @ + 1,
              !.outbox = Append(@, [message EXCEPT !.sequence_number =
                                       n.coordinator.sequence_counter])]

\* a faulty send: every send takes two numbers
send_message_skipping(n, message) ==
    [n EXCEPT !.coordinator.sequence_counter = @ + 2,
              !.outbox = Append(@, [message EXCEPT !.sequence_number =
                                       n.coordinator.sequence_counter + 2])]

send_message_impl(n, message) ==
    [n EXCEPT !.coordinator.sequence_counter = @ + 1,
              !.outbox = Append(@, [message EXCEPT !.sequence_number =
                                       n.coordinator.sequence_counter + 1])]

hive_broadcast_knowledge(n, atom, t) ==
    LET packet  == knowledge_packet_from_atom(atom)
        message == hive_message_create(n.coordinator.node_id, 0,
                                       HIVE_MSG_KNOWLEDGE_SHARE, t)
    IN  send_message_impl(n,
            hive_message_set_data(message,
                [kind |-> "knowledge_packet", packet |-> packet],
                SIZEOF_KNOWLEDGE_PACKET))

ShareThreshold == R(7, 10)

share_knowledge_impl(n, atom, t) ==
    IF RGt(atom.importance, ShareThreshold)
    THEN hive_broadcast_knowledge(n, atom, t)
    ELSE n

\* a faulty integration: the store keeps the decoded fact only
process_shared_knowledge_evicting(n, packet, t) ==
    LET decoded == knowledge_packet_to_atom(n.atomspace, packet, t)
    IN  IF ~n.coordinator.local_engine THEN n
        ELSE [n EXCEPT !.atomspace =
                  [decoded.space EXCEPT
                       !.atoms = <<decoded.space.atoms[decoded.idx]>>,
                       !.atom_count = 1]]

\* a faulty integration: the fact is stamped with the time of reception
process_shared_knowledge_restamping(n, packet, t) ==
    IF ~n.coordinator.local_engine THEN n
    ELSE [n EXCEPT !.atomspace =
                  knowledge_packet_to_atom(n.atomspace,
                      [packet EXCEPT !.timestamp = t], t).space]

process_shared_knowledge_impl(n, packet, t) ==
    IF ~n.coordinator.local_engine THEN n
    ELSE [n EXCEPT !.atomspace =
                  knowledge_packet_to_atom(n.atomspace, packet, t).space]

\* the request of healing_request_create; the caller advances the counter
healing_request_create(problem_desc, severity, node_id, problem_id, t) ==
    [problem_id          |-> problem_id,
     problem_description |-> strncpy(problem_desc, DESCRIPTION_SIZE - 1),
     severity            |-> severity,
     requesting_node     |-> node_id,
     request_time        |-> t,
     suggested_action    |-> HEALING_NONE]

\* a faulty response: it names the problem after the one it answers
healing_response_create_next(problem_id, node_id, action, confidence) ==
    [problem_id         |-> problem_id + 1,
     responding_node    |-> node_id,
     recommended_action |-> action,
     confidence         |-> confidence]

healing_response_create(problem_id, node_id, action, confidence) ==
    [problem_id         |-> problem_id,
     responding_node    |-> node_id,
     recommended_action |-> action,
     confidence         |-> confidence]

request_healing_assistance_impl(n, request, t) ==
    LET message == hive_message_create(n.coordinator.node_id, 0,
                                       HIVE_MSG_HEALING_REQUEST, t)
    IN  send_message_impl(n,
            hive_message_set_data(message,
                [kind |-> "healing_request", request |-> request],
                SIZEOF_HEALING_REQUEST))

\* a faulty escalation: every local action is escalated
hive_coordinate_healing_always(n, problem_desc, t) ==
    LET created == healing_request_create(problem_desc, R(8, 10),
                       n.coordinator.node_id, n.problem_id_counter, t)
        counted == [n EXCEPT !.problem_id_counter = @ + 1]
        local_action == healing_evaluate_problem(local_engine(n),
                                                 problem_desc)
        request == [created EXCEPT !.suggested_action = local_action]
    IN  request_healing_assistance_impl(counted, request, t)

hive_coordinate_healing(n, problem_desc, t) ==
    LET created == healing_request_create(problem_desc, R(8, 10),
                       n.coordinator.node_id, n.problem_id_counter, t)
        counted == [n EXCEPT !.problem_id_counter = @ + 1]
        local_action == healing_evaluate_problem(local_engine(n),
                                                 problem_desc)
        request == [created EXCEPT !.suggested_action = local_action]
    IN  IF local_action = HEALING_NONE \/ local_action = HEALING_RETRY
        THEN request_healing_assistance_impl(counted, request, t)
        ELSE counted

\* a faulty answer: the response is broadcast
respond_to_healing_request_broadcast(n, request, t) ==
    LET recommended_action == healing_evaluate_problem(local_engine(n),
                                  request.problem_description)
        response == healing_response_create(request.problem_id,
                        n.coordinator.node_id, recommended_action,
                        R(8, 10))
        message  == hive_message_create(n.coordinator.node_id, 0,
                        HIVE_MSG_HEALING_RESPONSE, t)
    IN  send_message_impl(n,
            hive_message_set_data(message,
                [kind |-> "healing_response", response |-> response],
                SIZEOF_HEALING_RESPONSE))

respond_to_healing_request_impl(n, request, t) ==
    LET recommended_action == healing_evaluate_problem(local_engine(n),
                                  request.problem_description)
        response == healing_response_create(request.problem_id,
                        n.coordinator.node_id, recommended_action,
                        R(8, 10))
        message  == hive_message_create(n.coordinator.node_id,
                        request.requesting_node,
                        HIVE_MSG_HEALING_RESPONSE, t)
    IN  send_message_impl(n,
            hive_message_set_data(message,
                [kind |-> "healing_response", response |-> response],
                SIZEOF_HEALING_RESPONSE))

(***************************************************************************)
(* Collective intelligence.                                                *)
(***************************************************************************)
Digit(k) ==
    <<"0", "1", "2", "3", "4", "5", "6", "7", "8", "9">>[k + 1]

\* snprintf "%.2f" of a health in [0, 10): the value rounded to hundredths
FormatHealth(h) ==
    LET hundredths == (2 * 100 * h.n + h.d) \div (2 * h.d)
    IN  <<Digit(hundredths \div 100), ".",
          Digit((hundredths \div 10) % 10), Digit(hundredths % 10)>>

CollectiveName(h) ==
    <<"collective_health_">> \o FormatHealth(h)

hive_update_collective_topology(n, t) ==
    LET added == atomspace_add_atom(n.atomspace, ATOM_CONCEPT,
                     CollectiveName(n.topology.overall_health), t)
        i     == added.idx
    IN  IF ~n.coordinator.local_engine THEN n
        ELSE [n EXCEPT !.atomspace = [added.space EXCEPT !.atoms[i] =
            atomspace_update_truth_value(@, n.topology.overall_health,
                                         R(9, 10), t)]]

DIVERSITY_SCALE == 100

\* a faulty factor: the knowledge diversity is not limited to 1
hive_calculate_emergence_factor_unclamped(n) ==
    LET network_health == n.topology.overall_health
        knowledge_diversity == R(n.atomspace.atom_count, DIVERSITY_SCALE)
        emergence == RAdd(RAdd(RMul(network_health, R(4, 10)),
                               RMul(knowledge_diversity, R(3, 10))),
                          RMul(n.coordinator.collective_intelligence_score,
                               R(3, 10)))
    IN  IF ~n.coordinator.local_engine THEN Zero
        ELSE IF RGt(emergence, One) THEN One ELSE emergence

hive_calculate_emergence_factor(n) ==
    LET network_health == n.topology.overall_health
        raw_diversity  == R(n.atomspace.atom_count, DIVERSITY_SCALE)
        knowledge_diversity == IF RGt(raw_diversity, One) THEN One
                               ELSE raw_diversity
        emergence == RAdd(RAdd(RMul(network_health, R(4, 10)),
                               RMul(knowledge_diversity, R(3, 10))),
                          RMul(n.coordinator.collective_intelligence_score,
                               R(3, 10)))
    IN  IF ~n.coordinator.local_engine THEN Zero
        ELSE IF RGt(emergence, One) THEN One ELSE emergence

\* a faulty update: 0.8 itself already raises the autonomy
hive_adaptive_behavior_update_inclusive(n) ==
    LET emergence_factor == hive_calculate_emergence_factor(n)
    IN  [n EXCEPT !.autonomy_level =
                      IF RLe(R(8, 10), emergence_factor) THEN R(9, 10)
                      ELSE IF RLt(emergence_factor, R(3, 10)) THEN R(3, 10)
                      ELSE @,
                  !.coordinator.collective_intelligence_score =
                      emergence_factor]

\* a faulty update: the new factor is added to the stored score
hive_adaptive_behavior_update_adding(n) ==
    LET emergence_factor == hive_calculate_emergence_factor(n)
    IN  [n EXCEPT !.autonomy_level =
                      IF RGt(emergence_factor, R(8, 10)) THEN R(9, 10)
                      ELSE IF RLt(emergence_factor, R(3, 10)) THEN R(3, 10)
                      ELSE @,
                  !.coordinator.collective_intelligence_score =
                      RAdd(@, emergence_factor)]

\* a faulty update: a factor inside the band puts the autonomy back to
\* its initial value
hive_adaptive_behavior_update_resetting(n) ==
    LET emergence_factor == hive_calculate_emergence_factor(n)
    IN  [n EXCEPT !.autonomy_level =
                      IF RGt(emergence_factor, R(8, 10)) THEN R(9, 10)
                      ELSE IF RLt(emergence_factor, R(3, 10)) THEN R(3, 10)
                      ELSE InitialAutonomy,
                  !.coordinator.collective_intelligence_score =
                      emergence_factor]

\* The code dereferences local_engine without a test when it sets the
\* autonomy level; the sync is only run here with an engine attached.
hive_adaptive_behavior_update(n) ==
    LET emergence_factor == hive_calculate_emergence_factor(n)
    IN  [n EXCEPT !.autonomy_level =
                      IF RGt(emergence_factor, R(8, 10)) THEN R(9, 10)
                      ELSE IF RLt(emergence_factor, R(3, 10)) THEN R(3, 10)
                      ELSE @,
                  !.coordinator.collective_intelligence_score =
                      emergence_factor]

update_collective_knowledge_impl(n, t) ==
    hive_adaptive_behavior_update(hive_update_collective_topology(n, t))

(***************************************************************************)
(* Dispatch and the periodic cycle.                                        *)
(***************************************************************************)
\* a faulty dispatch: an emergency signal is answered with a heartbeat
\* a faulty dispatcher: a response is acknowledged with a response
receive_message_acknowledging(n, message, t) ==
    CASE message.type = HIVE_MSG_HEARTBEAT ->
           IF ~n.coordinator.local_engine THEN n
           ELSE [n EXCEPT !.topology =
               topology_update_node_health(
                   topology_add_node(@, message.sender_id,
                                     <<"remote_node">>),
                   message.sender_id, One)]
      [] message.type = HIVE_MSG_KNOWLEDGE_SHARE ->
           IF message.data_length = SIZEOF_KNOWLEDGE_PACKET
           THEN process_shared_knowledge_impl(n, message.data.packet, t)
           ELSE n
      [] message.type = HIVE_MSG_HEALING_REQUEST ->
           IF message.data_length = SIZEOF_HEALING_REQUEST
           THEN respond_to_healing_request_impl(n, message.data.request, t)
           ELSE n
      [] message.type = HIVE_MSG_HEALING_RESPONSE ->
           send_message_impl(n,
               [message EXCEPT !.sender_id = n.coordinator.node_id,
                               !.recipient_id = message.sender_id])
      [] message.type = HIVE_MSG_TOPOLOGY_UPDATE ->
           hive_update_collective_topology(n, t)
      [] OTHER -> n

receive_message_answering(n, message, t) ==
    CASE message.type = HIVE_MSG_HEARTBEAT ->
           IF ~n.coordinator.local_engine THEN n
           ELSE [n EXCEPT !.topology =
               topology_update_node_health(
                   topology_add_node(@, message.sender_id,
                                     <<"remote_node">>),
                   message.sender_id, One)]
      [] message.type = HIVE_MSG_KNOWLEDGE_SHARE ->
           IF message.data_length = SIZEOF_KNOWLEDGE_PACKET
           THEN process_shared_knowledge_impl(n, message.data.packet, t)
           ELSE n
      [] message.type = HIVE_MSG_HEALING_REQUEST ->
           IF message.data_length = SIZEOF_HEALING_REQUEST
           THEN respond_to_healing_request_impl(n, message.data.request, t)
           ELSE n
      [] message.type = HIVE_MSG_TOPOLOGY_UPDATE ->
           hive_update_collective_topology(n, t)
      [] message.type = HIVE_MSG_EMERGENCY_SIGNAL ->
           send_message_impl(n,
               hive_message_create(n.coordinator.node_id, 0,
                                   HIVE_MSG_HEARTBEAT, t))
      [] OTHER -> n

\* a faulty dispatcher: the payload is used whatever its length
receive_message_unmeasured(n, message, t) ==
    CASE message.type = HIVE_MSG_HEARTBEAT ->
           IF ~n.coordinator.local_engine THEN n
           ELSE [n EXCEPT !.topology =
               topology_update_node_health(
                   topology_add_node(@, message.sender_id,
                                     <<"remote_node">>),
                   message.sender_id, One)]
      [] message.type = HIVE_MSG_KNOWLEDGE_SHARE ->
           IF message.data.kind = "knowledge_packet"
           THEN process_shared_knowledge_impl(n, message.data.packet, t)
           ELSE n
      [] message.type = HIVE_MSG_HEALING_REQUEST ->
           IF message.data.kind = "healing_request"
           THEN respond_to_healing_request_impl(n, message.data.request, t)
           ELSE n
      [] message.type = HIVE_MSG_TOPOLOGY_UPDATE ->
           hive_update_collective_topology(n, t)
      [] OTHER -> n

receive_message_impl(n, message, t) ==
    CASE message.type = HIVE_MSG_HEARTBEAT ->
           IF ~n.coordinator.local_engine THEN n
           ELSE [n EXCEPT !.topology =
               topology_update_node_health(
                   topology_add_node(@, message.sender_id,
                                     <<"remote_node">>),
                   message.sender_id, One)]
      [] message.type = HIVE_MSG_KNOWLEDGE_SHARE ->
           IF message.data_length = SIZEOF_KNOWLEDGE_PACKET
           THEN process_shared_knowledge_impl(n, message.data.packet, t)
           ELSE n
      [] message.type = HIVE_MSG_HEALING_REQUEST ->
           IF message.data_length = SIZEOF_HEALING_REQUEST
           THEN respond_to_healing_request_impl(n, message.data.request, t)
           ELSE n
      [] message.type = HIVE_MSG_TOPOLOGY_UPDATE ->
           hive_update_collective_topology(n, t)
      [] OTHER -> n

\* a faulty step 1: the heartbeat waits for more than the interval
CycleHeartbeat_late(n, t) ==
    IF t - n.coordinator.last_heartbeat > HEARTBEAT_INTERVAL
    THEN [send_message_impl(n,
              hive_message_create(n.coordinator.node_id, 0,
                                  HIVE_MSG_HEARTBEAT, t))
          EXCEPT !.coordinator.last_heartbeat = t]
    ELSE n

\* step 1 of the cycle: the periodic heartbeat
\* a faulty step 1: the time of the heartbeat is not noted
CycleHeartbeat_forgetful(n, t) ==
    IF t - n.coordinator.last_heartbeat >= HEARTBEAT_INTERVAL
    THEN send_message_impl(n,
             hive_message_create(n.coordinator.node_id, 0,
                                 HIVE_MSG_HEARTBEAT, t))
    ELSE n

CycleHeartbeat(n, t) ==
    IF t - n.coordinator.last_heartbeat >= HEARTBEAT_INTERVAL
    THEN [send_message_impl(n,
              hive_message_create(n.coordinator.node_id, 0,
                                  HIVE_MSG_HEARTBEAT, t))
          EXCEPT !.coordinator.last_heartbeat = t]
    ELSE n

\* a faulty step 2: the sync waits for more than the interval
CycleSync_late(n, t) ==
    IF t - n.coordinator.last_knowledge_sync > SYNC_INTERVAL
    THEN [update_collective_knowledge_impl(n, t)
          EXCEPT !.coordinator.last_knowledge_sync = t]
    ELSE n

\* step 2: the knowledge sync
CycleSync(n, t) ==
    IF t - n.coordinator.last_knowledge_sync >= SYNC_INTERVAL
    THEN [update_collective_knowledge_impl(n, t)
          EXCEPT !.coordinator.last_knowledge_sync = t]
    ELSE n

CycleThreshold == R(8, 10)

\* a faulty test: the recency window is not checked
CycleEligible_any_age(atom, t) ==
    RGt(atom.importance, CycleThreshold)

\* the scan's test of one atom
CycleEligible(atom, t) ==
    /\ RGt(atom.importance, CycleThreshold)
    /\ t - atom.timestamp < SHARE_WINDOW

\* a faulty step 3: the scan does not stop at the first eligible atom
RECURSIVE ShareFrom(_, _, _)
ShareFrom(n, i, t) ==
    IF i > Len(n.atomspace.atoms) THEN n
    ELSE IF CycleEligible(n.atomspace.atoms[i], t)
         THEN ShareFrom(share_knowledge_impl(n, n.atomspace.atoms[i], t),
                        i + 1, t)
         ELSE ShareFrom(n, i + 1, t)

CycleShare_all(n, t) ==
    ShareFrom(n, 1, t)

\* a faulty step 3: the scan shares the eligible atom nearest the tail
CycleShare_oldest(n, t) ==
    LET eligible == {i \in 1..Len(n.atomspace.atoms) :
                        CycleEligible(n.atomspace.atoms[i], t)}
    IN  IF ~n.coordinator.local_engine \/ eligible = {} THEN n
        ELSE share_knowledge_impl(n,
                 n.atomspace.atoms[CHOOSE i \in eligible :
                                       \A j \in eligible : i >= j], t)

\* step 3: share the first eligible atom of the list, then stop
CycleShare(n, t) ==
    LET eligible == {i \in 1..Len(n.atomspace.atoms) :
                        CycleEligible(n.atomspace.atoms[i], t)}
    IN  IF ~n.coordinator.local_engine \/ eligible = {} THEN n
        ELSE share_knowledge_impl(n,
                 n.atomspace.atoms[CHOOSE i \in eligible :
                                       \A j \in eligible : i <= j], t)

hive_coordinator_process_cycle(n, t) ==
    CycleShare(CycleSync(CycleHeartbeat(n, t), t), t)

(***************************************************************************)
(* State.                                                                  *)
(*   now                 time(NULL)                                        *)
(*   atomspace           engine->global_knowledge                          *)
(*   replica             the store of a second node, target of a decode    *)
(*   topology            engine->topology                                  *)
(*   healing_rules       engine->healing_rules                             *)
(*   autonomy_level      engine->self_image->autonomy_level                *)
(*   coordinator         the hive_coordinator_t fields                     *)
(*   problem_id_counter  the static counter of healing_request_create      *)
(*   outbox              the envelopes the last operation handed to        *)
(*                       send_message, in order                            *)
(*   store_ops           how many operations have written to atomspace     *)
(*   last                the last operation and its arguments              *)
(***************************************************************************)
VARIABLES now, atomspace, replica, topology, healing_rules, autonomy_level,
          coordinator, problem_id_counter, outbox, store_ops, last,
          hive, sent, requests, threads, serialized

vars == <<now, atomspace, replica, topology, healing_rules, autonomy_level,
          coordinator, problem_id_counter, outbox, store_ops, last,
          hive, sent, requests, threads, serialized>>

\* the coordinators of one process, the envelopes handed to the transport,
\* the requests created, and the threads that drive a coordinator
hiveVars == <<hive, sent, requests, threads, serialized>>

storeVars == <<atomspace, replica, store_ops>>

nodeVars == <<topology, healing_rules, autonomy_level, coordinator,
              problem_id_counter, outbox>>

(***************************************************************************)
(* Bounds of the model.                                                    *)
(***************************************************************************)
MaxStoreOps == 3
MaxNodeStoreOps == 2
MaxSeq == 3
MaxProblemId == 3
MaxSent == 2
MaxAttempts == 2

\* time(NULL) when the engine and the coordinator are created
CreatedAt == SHARE_WINDOW

NODE_ID == 1001

PEER_ID == 1002

hive_coordinator_create(node_id, t) ==
    [local_engine                  |-> TRUE,
     node_id                       |-> node_id,
     sequence_counter              |-> 0,
     last_heartbeat                |-> t,
     last_knowledge_sync           |-> t,
     collective_intelligence_score |-> Half]

\* the nodes of the hive: each has an engine and a coordinator of its own
HiveIds == {NODE_ID, PEER_ID}

\* a coordinator is driven by a ticker and by a dispatcher
ThreadRoles == {"ticker", "dispatcher"}

ThreadIds == HiveIds \X ThreadRoles

hive_member_create(node_id, t) ==
    [coordinator    |-> hive_coordinator_create(node_id, t),
     atomspace      |-> atomspace_create,
     topology       |-> topology_create,
     healing_rules  |-> DefaultRules,
     autonomy_level |-> InitialAutonomy]

IdleThreads ==
    [th \in ThreadIds |-> [pc |-> "idle", counter_read |-> 0,
                           old_weight |-> Zero]]

InitHive ==
    /\ hive = [i \in HiveIds |-> hive_member_create(i, CreatedAt)]
    /\ sent = <<>>
    /\ requests = <<>>
    /\ threads = IdleThreads
    /\ serialized = TRUE

InitNode ==
    /\ topology = topology_create
    /\ healing_rules = DefaultRules
    /\ autonomy_level = InitialAutonomy
    /\ coordinator = hive_coordinator_create(NODE_ID, CreatedAt)
    /\ problem_id_counter = 1
    /\ outbox = <<>>

Init ==
    /\ now = CreatedAt
    /\ atomspace = atomspace_create
    /\ replica = atomspace_create
    /\ store_ops = 0
    /\ last = [op |-> "create"]
    /\ InitNode
    /\ InitHive

\* the environment: time passes
AdvanceTo(t) ==
    /\ t > now
    /\ now' = t
    /\ last' = [op |-> "Advance"]

(***************************************************************************)
(* The knowledge store and the codec on their own.                         *)
(***************************************************************************)
LongName == Pad("x", NAME_SIZE)

\* the (kind, name) pairs the host application upserts
UpsertInputs ==
    {<<ATOM_CONCEPT, <<"a">> >>, <<ATOM_PREDICATE, <<"a">> >>,
     <<ATOM_CONCEPT, <<"b">> >>, <<ATOM_CONCEPT, LongName>>,
     <<ATOM_CONCEPT, strncpy(LongName, NAME_SIZE - 1)>>}

StoreTimes == {CreatedAt + HEARTBEAT_INTERVAL}

MergeInputs ==
    {[truth |-> R(9, 10), confidence |-> R(9, 10)],
     [truth |-> Zero, confidence |-> One],
     [truth |-> One, confidence |-> Zero]}

\* packets as a peer's knowledge_packet_from_atom produces them
StorePackets ==
    {[atom_name |-> <<"a">>, atom_type |-> ATOM_CONCEPT,
      truth_value |-> R(9, 10), confidence |-> R(19, 20),
      importance |-> One, timestamp |-> CreatedAt],
     [atom_name |-> <<"b">>, atom_type |-> ATOM_CONCEPT,
      truth_value |-> R(1, 10), confidence |-> One,
      importance |-> R(13, 20), timestamp |-> CreatedAt - 1],
     [atom_name |-> strncpy(LongName, PACKET_NAME_SIZE - 1),
      atom_type |-> ATOM_PREDICATE,
      truth_value |-> One, confidence |-> Zero,
      importance |-> R(17, 20), timestamp |-> CreatedAt]}

StoreAdvance ==
    /\ \E t \in StoreTimes : AdvanceTo(t)
    /\ UNCHANGED <<hiveVars, storeVars, nodeVars>>

Upsert(kind, name) ==
    /\ store_ops < MaxStoreOps
    /\ atomspace' = atomspace_add_atom(atomspace, kind, name, now).space
    /\ store_ops' = store_ops + 1
    /\ last' = [op |-> "Upsert", kind |-> kind, name |-> name]
    /\ UNCHANGED <<hiveVars, now, replica, nodeVars>>

Merge(i, in) ==
    /\ store_ops < MaxStoreOps
    /\ i \in 1..Len(atomspace.atoms)
    /\ atomspace' = [atomspace EXCEPT !.atoms[i] =
           atomspace_update_truth_value(@, in.truth, in.confidence, now)]
    /\ store_ops' = store_ops + 1
    /\ last' = [op |-> "Merge", idx |-> i, in |-> in]
    /\ UNCHANGED <<hiveVars, now, replica, nodeVars>>

Decode(packet) ==
    /\ store_ops < MaxStoreOps
    /\ atomspace' = knowledge_packet_to_atom(atomspace, packet, now).space
    /\ store_ops' = store_ops + 1
    /\ last' = [op |-> "Decode", packet |-> packet]
    /\ UNCHANGED <<hiveVars, now, replica, nodeVars>>

\* encode the i-th fact and decode the packet into an empty store
RoundTrip(i) ==
    /\ i \in 1..Len(atomspace.atoms)
    /\ replica' = knowledge_packet_to_atom(atomspace_create,
                      knowledge_packet_from_atom(atomspace.atoms[i]),
                      now).space
    /\ last' = [op |-> "RoundTrip", idx |-> i]
    /\ UNCHANGED <<hiveVars, now, atomspace, store_ops, nodeVars>>

NextStore ==
    \/ StoreAdvance
    \/ \E u \in UpsertInputs : Upsert(u[1], u[2])
    \/ \E i \in 1..MaxStoreOps, in \in MergeInputs : Merge(i, in)
    \/ \E p \in StorePackets : Decode(p)
    \/ \E i \in 1..MaxStoreOps : RoundTrip(i)

SpecStore == Init /\ [][NextStore]_vars

(***************************************************************************)
(* One coordinator and its engine, driven by the enclosing process (Tick,  *)
(* CoordinateHealing, BroadcastKnowledge) and by the transport (Dispatch). *)
(***************************************************************************)
Node ==
    [coordinator        |-> coordinator,
     atomspace          |-> atomspace,
     topology           |-> topology,
     healing_rules      |-> healing_rules,
     autonomy_level     |-> autonomy_level,
     problem_id_counter |-> problem_id_counter,
     outbox             |-> <<>>]

\* the node becomes n2, within the bounds of the model
Commit(n2, l) ==
    /\ n2.coordinator.sequence_counter <= MaxSeq
    /\ n2.problem_id_counter <= MaxProblemId
    /\ n2.atomspace # atomspace => store_ops < MaxNodeStoreOps
    /\ coordinator' = n2.coordinator
    /\ atomspace' = n2.atomspace
    /\ topology' = n2.topology
    /\ healing_rules' = n2.healing_rules
    /\ autonomy_level' = n2.autonomy_level
    /\ problem_id_counter' = n2.problem_id_counter
    /\ outbox' = n2.outbox
    /\ store_ops' = IF n2.atomspace # atomspace THEN store_ops + 1
                    ELSE store_ops
    /\ last' = l
    /\ UNCHANGED <<hiveVars, now, replica>>

\* the clock readings of the run: 29, 30, 31 and 60 s after creation
TimePoints ==
    {CreatedAt + HEARTBEAT_INTERVAL - 1, CreatedAt + HEARTBEAT_INTERVAL,
     CreatedAt + HEARTBEAT_INTERVAL + 1, CreatedAt + SYNC_INTERVAL}

\* a timestamp whose age is 299, 300 and 301 s at the first three readings
OldStamp == CreatedAt + HEARTBEAT_INTERVAL - SHARE_WINDOW

\* packets of the peer: a fact of importance 0.65, 0.75 or 0.85 stamped at
\* the creation time, and a fact of importance 0.85 with an old stamp
SharePackets ==
    {[atom_name |-> <<"f">>, atom_type |-> ATOM_CONCEPT,
      truth_value |-> R(9, 10), confidence |-> R(9, 10),
      importance |-> R(13, 20), timestamp |-> CreatedAt],
     [atom_name |-> <<"f">>, atom_type |-> ATOM_CONCEPT,
      truth_value |-> R(9, 10), confidence |-> R(9, 10),
      importance |-> R(3, 4), timestamp |-> CreatedAt],
     [atom_name |-> <<"f">>, atom_type |-> ATOM_CONCEPT,
      truth_value |-> R(9, 10), confidence |-> R(9, 10),
      importance |-> R(17, 20), timestamp |-> CreatedAt],
     [atom_name |-> <<"g">>, atom_type |-> ATOM_CONCEPT,
      truth_value |-> R(1, 5), confidence |-> One,
      importance |-> R(17, 20), timestamp |-> OldStamp],
     [atom_name |-> CollectiveName(One), atom_type |-> ATOM_CONCEPT,
      truth_value |-> One, confidence |-> R(9, 10),
      importance |-> R(17, 20), timestamp |-> CreatedAt]}

Descriptions ==
    {<<"node_failure">>, <<"disk_full">>}

\* the one packet the full run delivers: the important, recent fact
CorePackets ==
    {k \in SharePackets : /\ k.atom_name = <<"f">>
                          /\ k.importance = R(17, 20)}

PeerMessage(peer, type, data, length) ==
    [hive_message_set_data(hive_message_create(peer, 0, type, CreatedAt),
                           data, length)
     EXCEPT !.sequence_number = 1]

KnowledgeShareOf(k) ==
    PeerMessage(PEER_ID, HIVE_MSG_KNOWLEDGE_SHARE,
                [kind |-> "knowledge_packet", packet |-> k],
                SIZEOF_KNOWLEDGE_PACKET)

\* the envelopes the transport may deliver
Inbound ==
    {PeerMessage(PEER_ID, HIVE_MSG_HEARTBEAT, NoData, 0)}
    \cup {KnowledgeShareOf(k) : k \in CorePackets}
    \cup {PeerMessage(PEER_ID, HIVE_MSG_HEALING_REQUEST,
              [kind |-> "healing_request",
               request |-> healing_request_create(d, R(19, 20), PEER_ID, 7,
                              CreatedAt)],
              SIZEOF_HEALING_REQUEST) : d \in Descriptions}
    \cup {PeerMessage(PEER_ID, HIVE_MSG_KNOWLEDGE_SHARE, NoData, 0),
          PeerMessage(PEER_ID, HIVE_MSG_HEALING_REQUEST, NoData, 0),
          PeerMessage(PEER_ID, HIVE_MSG_HEALING_RESPONSE,
              [kind |-> "healing_response",
               response |-> healing_response_create(1, PEER_ID,
                                HEALING_REROUTE, R(8, 10))],
              SIZEOF_HEALING_RESPONSE),
          PeerMessage(PEER_ID, HIVE_MSG_TOPOLOGY_UPDATE, NoData, 0),
          PeerMessage(PEER_ID, HIVE_MSG_EMERGENCY_SIGNAL, NoData, 0),
          PeerMessage(PEER_ID, HIVE_MSG_EMERGENCY_SIGNAL + 1, NoData, 0)}

Advance ==
    /\ \E t \in TimePoints : AdvanceTo(t)
    /\ outbox' = <<>>
    /\ UNCHANGED <<hiveVars,
                 storeVars, topology, healing_rules, autonomy_level,
                   coordinator, problem_id_counter>>

Tick ==
    Commit(hive_coordinator_process_cycle(Node, now), [op |-> "Tick"])

Dispatch(message) ==
    Commit(receive_message_impl(Node, message, now),
           [op |-> "Dispatch", message |-> message])

CoordinateHealing(problem_desc) ==
    Commit(hive_coordinate_healing(Node, problem_desc, now),
           [op |-> "CoordinateHealing", problem_desc |-> problem_desc])

BroadcastKnowledge(i) ==
    /\ i \in 1..Len(atomspace.atoms)
    /\ Commit(hive_broadcast_knowledge(Node, atomspace.atoms[i], now),
              [op |-> "BroadcastKnowledge", idx |-> i])

\* payload lengths the application hands to hive_message_set_data
PayloadLengths == {DATA_SIZE, DATA_SIZE + 1}

\* the application builds an envelope with a payload of the given length
\* and hands it to coordinator->send_message
SendPayload(length) ==
    Commit(send_message_impl(Node,
               hive_message_set_data(
                   hive_message_create(coordinator.node_id, PEER_ID,
                                       HIVE_MSG_EMERGENCY_SIGNAL, now),
                   [kind |-> "bytes", length |-> length], length)),
           [op |-> "Send", length |-> length])

Next ==
    \/ Advance
    \/ Tick
    \/ \E m \in Inbound : Dispatch(m)
    \/ \E length \in PayloadLengths : SendPayload(length)
    \/ \E d \in Descriptions : CoordinateHealing(d)
    \/ \E i \in 1..MaxNodeStoreOps : BroadcastKnowledge(i)

Spec == Init /\ [][Next]_vars

(***************************************************************************)
(* The periodic cycle and inbound knowledge only.                          *)
(***************************************************************************)
ShareInbound ==
    {KnowledgeShareOf(k) : k \in SharePackets}

NextShare ==
    \/ Advance
    \/ Tick
    \/ \E m \in ShareInbound : Dispatch(m)

SpecShare == Init /\ [][NextShare]_vars

(***************************************************************************)
(* The healing escalation on its own: the application registers further    *)
(* rules and asks the coordinator to heal.                                 *)
(***************************************************************************)
ExtraRules ==
    {healing_create_rule(<<"flap">>, HEALING_NONE, R(6, 10)),
     healing_create_rule(<<"rebuild">>, HEALING_RECONSTRUCT, R(5, 10))}

HealingDescriptions ==
    {<<"node_failure">>, <<"connection_failed">>, <<"timeout">>,
     <<"disk_full">>, <<"link", "flap">>, <<"rebuild", "timeout">>}

\* healing_add_rule by the application; each extra rule is added once
AddRule(rule) ==
    /\ \A i \in 1..Len(healing_rules) : healing_rules[i] # rule
    /\ healing_rules' = healing_add_rule(healing_rules, rule)
    /\ outbox' = <<>>
    /\ last' = [op |-> "AddRule", rule |-> rule]
    /\ UNCHANGED <<hiveVars,
                 now, storeVars, topology, autonomy_level, coordinator,
                   problem_id_counter>>

\* the application clears coordinator->local_engine
DetachEngine ==
    /\ coordinator.local_engine
    /\ coordinator' = [coordinator EXCEPT !.local_engine = FALSE]
    /\ outbox' = <<>>
    /\ last' = [op |-> "DetachEngine"]
    /\ UNCHANGED <<hiveVars,
                 now, storeVars, topology, healing_rules, autonomy_level,
                   problem_id_counter>>

NextHealing ==
    \/ \E r \in ExtraRules : AddRule(r)
    \/ DetachEngine
    \/ \E d \in HealingDescriptions : CoordinateHealing(d)

SpecHealing == Init /\ [][NextHealing]_vars

(***************************************************************************)
(* The topology view: heartbeats of two peers, and the application         *)
(* reporting the health of a node.                                         *)
(***************************************************************************)
THIRD_ID == 1003

Peers == {PEER_ID, THIRD_ID}

HealthReports == {R(1, 20), Half, R(4, 5)}

\* topology_update_node_health called by the application
UpdateHealth(id, health) ==
    /\ topology' = topology_update_node_health(topology, id, health)
    /\ outbox' = <<>>
    /\ last' = [op |-> "UpdateHealth", id |-> id, health |-> health]
    /\ UNCHANGED <<hiveVars, now, storeVars, healing_rules, autonomy_level,
                   coordinator, problem_id_counter>>

NextTopology ==
    \/ \E p \in Peers :
           Dispatch(PeerMessage(p, HIVE_MSG_HEARTBEAT, NoData, 0))
    \/ \E p \in Peers, h \in HealthReports : UpdateHealth(p, h)

SpecTopology == Init /\ [][NextTopology]_vars

(***************************************************************************)
(* The knowledge sync: cycles 59, 60 and 120 s after creation, the         *)
(* application refreshing the collective knowledge itself, and a peer      *)
(* whose health changes.                                                   *)
(***************************************************************************)
SyncTimePoints ==
    {CreatedAt + SYNC_INTERVAL - 1, CreatedAt + SYNC_INTERVAL,
     CreatedAt + 2 * SYNC_INTERVAL}

AdvanceSync ==
    /\ \E t \in SyncTimePoints : AdvanceTo(t)
    /\ outbox' = <<>>
    /\ UNCHANGED <<hiveVars,
                 storeVars, topology, healing_rules, autonomy_level,
                   coordinator, problem_id_counter>>

\* coordinator->update_collective_knowledge called by the application
UpdateCollectiveKnowledge ==
    Commit(update_collective_knowledge_impl(Node, now),
           [op |-> "UpdateCollectiveKnowledge"])

NextSync ==
    \/ AdvanceSync
    \/ Tick
    \/ UpdateCollectiveKnowledge
    \/ Dispatch(PeerMessage(PEER_ID, HIVE_MSG_HEARTBEAT, NoData, 0))
    \/ \E h \in HealthReports : UpdateHealth(PEER_ID, h)

SpecSync == Init /\ [][NextSync]_vars

(***************************************************************************)
(* The emergence factor and the adaptive update as functions of the        *)
(* network health, the number of atoms and the previous score.             *)
(***************************************************************************)
HealthGrid == {Zero, Half, R(6, 10), One}

AtomCounts == {0, 50, 100, 150}

ScoreGrid == {Zero, Half, One}

FactName(k) ==
    <<"fact_", Digit(k \div 100), Digit((k \div 10) % 10), Digit(k % 10)>>

\* the store after atomspace_add_atom of FactName(1), ..., FactName(k):
\* each atom as a first insertion makes it, with the id of its turn,
\* the newest at the head
StoreOfSize(k) ==
    [atoms      |-> [i \in 1..k |->
                        [atomspace_add_atom(atomspace_create, ATOM_CONCEPT,
                                            FactName(k + 1 - i),
                                            CreatedAt).space.atoms[1]
                         EXCEPT !.id = k + 1 - i]],
     atom_count |-> k,
     next_id    |-> k + 1]

InitEmergence ==
    /\ now = CreatedAt
    /\ \E k \in AtomCounts : atomspace = StoreOfSize(k)
    /\ replica = atomspace_create
    /\ store_ops = 0
    /\ last = [op |-> "create"]
    /\ \E h \in HealthGrid :
           topology = topology_update_node_health(
                          topology_add_node(topology_create, PEER_ID,
                                            <<"remote_node">>),
                          PEER_ID, h)
    /\ healing_rules = DefaultRules
    /\ autonomy_level = InitialAutonomy
    /\ \E s \in ScoreGrid :
           coordinator = [hive_coordinator_create(NODE_ID, CreatedAt)
                          EXCEPT !.collective_intelligence_score = s]
    /\ problem_id_counter = 1
    /\ outbox = <<>>
    /\ InitHive

\* hive_adaptive_behavior_update called on a score of the grid
AdaptiveUpdate ==
    /\ coordinator.collective_intelligence_score \in ScoreGrid
    /\ Commit(hive_adaptive_behavior_update(Node),
              [op |-> "AdaptiveUpdate"])

\* hive_calculate_emergence_factor called by the application
EmergenceFactor ==
    /\ last' = [op |-> "EmergenceFactor",
                value |-> hive_calculate_emergence_factor(Node)]
    /\ outbox' = <<>>
    /\ UNCHANGED <<hiveVars,
                 now, storeVars, topology, healing_rules, autonomy_level,
                   coordinator, problem_id_counter>>

NextEmergence ==
    \/ AdaptiveUpdate
    \/ EmergenceFactor

SpecEmergence == InitEmergence /\ [][NextEmergence]_vars

(***************************************************************************)
(* The merge as a function of (t1, c1) and (t2, c2): one fact holding any  *)
(* grid value, one call of atomspace_update_truth_value on it.             *)
(***************************************************************************)
FactGrid == {Zero, Half, R(9, 10), One}

\* arguments of the call; 3/2 is a confidence above the documented range
ArgGrid == FactGrid \cup {R(3, 2)}

InitMerge ==
    /\ now = CreatedAt
    /\ \E t \in FactGrid, c \in FactGrid :
           atomspace = [atoms |-> <<[id |-> 1, type |-> ATOM_CONCEPT,
                                    name |-> <<"a">>, truth_value |-> t,
                                    confidence |-> c,
                                    importance |-> DefaultImportance,
                                    timestamp |-> CreatedAt]>>,
                        atom_count |-> 1, next_id |-> 2]
    /\ replica = atomspace_create
    /\ store_ops = 0
    /\ last = [op |-> "create"]
    /\ InitNode
    /\ InitHive

NextMerge ==
    \E t \in ArgGrid, c \in ArgGrid :
        /\ store_ops = 0
        /\ Merge(1, [truth |-> t, confidence |-> c])

SpecMerge == InitMerge /\ [][NextMerge]_vars

(***************************************************************************)
(* Properties of the knowledge store and the codec.                        *)
(***************************************************************************)

\* C3: a store never contains two facts with the same stored name, after
\* any sequence of upserts with names of up to NAME_SIZE characters.
C3_UniqueNames ==
    \A i, j \in 1..Len(atomspace.atoms) :
        i # j => atomspace.atoms[i].name # atomspace.atoms[j].name

\* C4: a merge of (t2, c2) into a fact holding (t1, c1) leaves truth and
\* confidence alone when c1 + c2 = 0, and otherwise makes the truth the
\* weighted mean (t1*c1 + t2*c2)/(c1 + c2) and the confidence
\* min(1, (c1 + c2)/2).
C4_MergeBlend ==
    [][last'.op = "Merge" =>
        LET old == atomspace.atoms[last'.idx]
            new == atomspace'.atoms[last'.idx]
            t1  == old.truth_value
            c1  == old.confidence
            t2  == last'.in.truth
            c2  == last'.in.confidence
            sum == RAdd(c1, c2)
        IN  IF sum = Zero
            THEN new.truth_value = t1 /\ new.confidence = c1
            ELSE /\ RMul(new.truth_value, sum)
                        = RAdd(RMul(t1, c1), RMul(t2, c2))
                 /\ new.confidence
                        = (IF RGt(sum, R(2, 1)) THEN One
                           ELSE RMul(sum, Half))]_vars

\* the documented example: (0.5, 0.5) merged with (0.9, 0.9)
C4_Witness ==
    /\ last.op = "Merge"
    /\ last.in = [truth |-> R(9, 10), confidence |-> R(9, 10)]
    /\ atomspace.atoms[1].truth_value = R(53, 70)
    /\ atomspace.atoms[1].confidence = R(7, 10)

\* C5: decoding a packet upserts the fact, blends truth and confidence
\* with the previous local values (the defaults for a new fact), and
\* overwrites importance and timestamp with the packet's.
C5_DecodeOverwrites ==
    [][last'.op = "Decode" =>
        LET p   == last'.packet
            was == {i \in 1..Len(atomspace.atoms) :
                       atomspace.atoms[i].name = p.atom_name}
            i   == IF was = {} THEN 0
                   ELSE CHOOSE k \in was : \A m \in was : k <= m
            j   == IF i = 0 THEN 1 ELSE i
            t1  == IF i = 0 THEN Half ELSE atomspace.atoms[i].truth_value
            c1  == IF i = 0 THEN Half ELSE atomspace.atoms[i].confidence
            sum == RAdd(c1, p.confidence)
            new == atomspace'.atoms[j]
        IN  /\ Len(atomspace'.atoms)
                   = Len(atomspace.atoms) + (IF i = 0 THEN 1 ELSE 0)
            /\ new.name = p.atom_name
            /\ new.importance = p.importance
            /\ new.timestamp = p.timestamp
            /\ RMul(new.truth_value, sum)
                   = RAdd(RMul(t1, c1), RMul(p.truth_value, p.confidence))
            /\ new.confidence
                   = (IF RGt(sum, R(2, 1)) THEN One
                      ELSE RMul(sum, Half))]_vars

\* a packet decoded onto an existing fact at a time other than the
\* packet's: the bumped importance and the merge's timestamp are replaced
C5_Witness ==
    /\ last.op = "Decode"
    /\ last.packet.atom_name = <<"b">>
    /\ store_ops >= 2
    /\ atomspace.atom_count = 1
    /\ atomspace.atoms[1].importance = R(13, 20)
    /\ atomspace.atoms[1].timestamp # now
    /\ atomspace.atoms[1].truth_value # R(1, 10)

\* C6 as claimed: encoding a fact and decoding the packet into an empty
\* store reproduces the fact's truth value, confidence and importance.
C6_RoundTripReproduces ==
    last.op = "RoundTrip" =>
        LET f == atomspace.atoms[last.idx]
            g == replica.atoms[1]
        IN  /\ g.truth_value = f.truth_value
            /\ g.confidence = f.confidence
            /\ g.importance = f.importance

\* C6 amended: the round trip into an empty store reproduces name, kind,
\* importance and timestamp; truth and confidence are the blend of the
\* defaults (0.5, 0.5) with the fact's (t, c), which equals t only when
\* t = 0.5 and equals c only when c = 0.5.
C6_RoundTripBlend ==
    last.op = "RoundTrip" =>
        LET f == atomspace.atoms[last.idx]
            g == replica.atoms[1]
            t == f.truth_value
            c == f.confidence
            sum == RAdd(Half, c)
        IN  /\ Len(replica.atoms) = 1
            /\ g.name = f.name
            /\ g.type = f.type
            /\ g.importance = f.importance
            /\ g.timestamp = f.timestamp
            /\ RMul(g.truth_value, sum) = RAdd(R(1, 4), RMul(t, c))
            /\ g.confidence
                   = (IF RGt(sum, R(2, 1)) THEN One ELSE RMul(sum, Half))
            /\ (g.truth_value = t) <=> (t = Half)
            /\ (g.confidence = c) <=> (c = Half)

C6_Witness ==
    /\ last.op = "RoundTrip"
    /\ atomspace.atoms[last.idx].truth_value # Half
    /\ atomspace.atoms[last.idx].importance # DefaultImportance
    /\ replica.atoms[1].truth_value # atomspace.atoms[last.idx].truth_value
    /\ replica.atoms[1].importance = atomspace.atoms[last.idx].importance

(***************************************************************************)
(* Properties of the coordinator.                                          *)
(***************************************************************************)
Sent(box, type) ==
    {i \in 1..Len(box) : box[i].type = type}

\* C1: hive_coordinate_healing broadcasts exactly one HealingRequest
\* (recipient 0, requesting node = its own id) when the local evaluation
\* of the description is NONE or RETRY; for any other local action it
\* sends nothing and the sequence counter stays as it was.
C1_EscalationPolicy ==
    [][last'.op = "CoordinateHealing" =>
        LET local == healing_evaluate_problem(local_engine(Node),
                                              last'.problem_desc)
        IN  IF local \in {HEALING_NONE, HEALING_RETRY}
            THEN /\ Len(outbox') = 1
                 /\ outbox'[1].type = HIVE_MSG_HEALING_REQUEST
                 /\ outbox'[1].recipient_id = 0
                 /\ outbox'[1].sender_id = coordinator.node_id
                 /\ outbox'[1].data.request.requesting_node
                        = coordinator.node_id
                 /\ coordinator'.sequence_counter
                        = coordinator.sequence_counter + 1
            ELSE /\ outbox' = <<>>
                 /\ coordinator'.sequence_counter
                        = coordinator.sequence_counter]_vars

\* an escalation whose local action is NONE, after a strong answer that
\* sent nothing
C1_Witness ==
    /\ last.op = "CoordinateHealing"
    /\ coordinator.local_engine
    /\ last.problem_desc = <<"link", "flap">>
    /\ Len(outbox) = 1
    /\ outbox[1].data.request.suggested_action = HEALING_NONE
    /\ outbox[1].data.request.problem_id = 2
    /\ coordinator.sequence_counter = 1

\* C2: every envelope a step sends carries a sequence number greater than
\* that of the previous Send of the coordinator, and the counter, which
\* holds the number of the last Send, never goes back.
C2_SequenceIncreases ==
    [][/\ \A i \in 1..Len(outbox') :
              outbox'[i].sequence_number
                  > (IF i = 1 THEN coordinator.sequence_counter
                     ELSE outbox'[i - 1].sequence_number)
       /\ coordinator'.sequence_counter
              = (IF outbox' = <<>> THEN coordinator.sequence_counter
                 ELSE outbox'[Len(outbox')].sequence_number)]_vars

\* a cycle that sends two envelopes after an earlier Send
C2_Witness ==
    /\ last.op = "Tick"
    /\ Len(outbox) = 2
    /\ outbox[1].sequence_number = 2
    /\ outbox[2].sequence_number = 3

\* C7: a cycle sends one Heartbeat (recipient 0) and sets last_heartbeat
\* to now when now - last_heartbeat >= 30; otherwise it sends no Heartbeat
\* and leaves last_heartbeat alone.
C7_HeartbeatTiming ==
    [][last'.op = "Tick" =>
        LET due == now - coordinator.last_heartbeat >= 30
            hb  == Sent(outbox', HIVE_MSG_HEARTBEAT)
        IN  IF due
            THEN /\ Cardinality(hb) = 1
                 /\ \A i \in hb : /\ outbox'[i].recipient_id = 0
                                  /\ outbox'[i].sender_id
                                         = coordinator.node_id
                 /\ coordinator'.last_heartbeat = now
            ELSE /\ hb = {}
                 /\ coordinator'.last_heartbeat
                        = coordinator.last_heartbeat]_vars

\* the heartbeat of a cycle exactly 30 s after the previous one
C7_Witness ==
    /\ last.op = "Tick"
    /\ now = CreatedAt + 30
    /\ Sent(outbox, HIVE_MSG_HEARTBEAT) # {}
    /\ coordinator.last_heartbeat = now

OnlyFact085(t) ==
    /\ Len(atomspace.atoms) = 1
    /\ atomspace.atoms[1].importance = R(85, 100)
    /\ t - atomspace.atoms[1].timestamp < 300

SharesOf(box, name) ==
    {i \in Sent(box, HIVE_MSG_KNOWLEDGE_SHARE) :
         box[i].data.packet.atom_name = name}

\* every KnowledgeShare of a cycle carries a fact above 0.7 and younger
\* than 300 s
SharedAreImportantAndRecent(box, t) ==
    \A i \in Sent(box, HIVE_MSG_KNOWLEDGE_SHARE) :
        /\ RGt(box[i].data.packet.importance, R(7, 10))
        /\ t - box[i].data.packet.timestamp < 300

\* C8 as claimed: a cycle never shares a fact of importance <= 0.7 or of
\* age >= 300 s, and a fact of importance 0.85 and age < 300 s that is the
\* only fact of the store is shared by that cycle.
C8_SelectiveSharing ==
    [][last'.op = "Tick" =>
        /\ SharedAreImportantAndRecent(outbox', now)
        /\ OnlyFact085(now) =>
               SharesOf(outbox', atomspace.atoms[1].name) # {}]_vars

\* C8 amended: as claimed, except that the only fact is shared unless the
\* cycle runs the knowledge sync and the fact is not the collective_health
\* fact of the current health: the sync then puts that fact at the head
\* of the store and the cycle shares it instead.
C8_SelectiveSharingUnlessSync ==
    [][last'.op = "Tick" =>
        LET syncing    == now - coordinator.last_knowledge_sync >= 60
            collective == CollectiveName(topology.overall_health)
            displaced  == /\ syncing
                          /\ atomspace.atoms[1].name # collective
        IN  /\ SharedAreImportantAndRecent(outbox', now)
            /\ (OnlyFact085(now) /\ ~displaced) =>
                   SharesOf(outbox', atomspace.atoms[1].name) # {}
            /\ (OnlyFact085(now) /\ displaced) =>
                   /\ SharesOf(outbox', atomspace.atoms[1].name) = {}
                   /\ SharesOf(outbox', collective) # {}]_vars

\* a syncing cycle that shared the collective_health fact it had just
\* created, not the fact of importance 0.85 below it
C8_Witness ==
    /\ last.op = "Tick"
    /\ coordinator.last_knowledge_sync = now
    /\ Len(atomspace.atoms) = 2
    /\ atomspace.atoms[2].name = <<"f">>
    /\ atomspace.atoms[2].importance = R(85, 100)
    /\ now - atomspace.atoms[2].timestamp < 300
    /\ SharesOf(outbox, <<"f">>) = {}
    /\ SharesOf(outbox, atomspace.atoms[1].name) # {}

\* C9: a cycle that finds a fact of importance > 0.7 and age < 300 s in
\* the store shares one such fact.
C9_SharesAbovePointSeven ==
    [][last'.op = "Tick" =>
        ((\E i \in 1..Len(atomspace.atoms) :
              /\ RGt(atomspace.atoms[i].importance, R(7, 10))
              /\ now - atomspace.atoms[i].timestamp < 300)
         => \E k \in Sent(outbox', HIVE_MSG_KNOWLEDGE_SHARE) :
              /\ RGt(outbox'[k].data.packet.importance, R(7, 10))
              /\ now - outbox'[k].data.packet.timestamp < 300)]_vars

\* C10: a cycle sends at most one KnowledgeShare and at most one
\* Heartbeat, and nothing else.
C10_OneSharePerCycle ==
    [][last'.op = "Tick" =>
        /\ Cardinality(Sent(outbox', HIVE_MSG_KNOWLEDGE_SHARE)) <= 1
        /\ Cardinality(Sent(outbox', HIVE_MSG_HEARTBEAT)) <= 1
        /\ Len(outbox') <= 2
        /\ \A i \in 1..Len(outbox') :
               outbox'[i].type \in {HIVE_MSG_HEARTBEAT,
                                    HIVE_MSG_KNOWLEDGE_SHARE}]_vars

\* a cycle with two eligible facts in the store that sent a Heartbeat and
\* one KnowledgeShare
C10_Witness ==
    /\ last.op = "Tick"
    /\ Cardinality({i \in 1..Len(atomspace.atoms) :
           /\ RGt(atomspace.atoms[i].importance, R(8, 10))
           /\ now - atomspace.atoms[i].timestamp < 300}) >= 2
    /\ Len(outbox) = 2
    /\ Cardinality(Sent(outbox, HIVE_MSG_KNOWLEDGE_SHARE)) = 1

\* C11: the dispatch of a well-formed HealingRequest sends exactly one
\* envelope, a HealingResponse addressed to the requesting node, with the
\* request's problem id, the receiver's node id and the receiver's local
\* evaluation of the request's description.
C11_HealingRequestAnswered ==
    [][(/\ last'.op = "Dispatch"
        /\ last'.message.type = HIVE_MSG_HEALING_REQUEST
        /\ last'.message.data_length = SIZEOF_HEALING_REQUEST) =>
        LET request == last'.message.data.request
        IN  /\ Len(outbox') = 1
            /\ outbox'[1].type = HIVE_MSG_HEALING_RESPONSE
            /\ outbox'[1].recipient_id = request.requesting_node
            /\ outbox'[1].sender_id = coordinator.node_id
            /\ outbox'[1].data.response.problem_id = request.problem_id
            /\ outbox'[1].data.response.responding_node
                   = coordinator.node_id
            /\ outbox'[1].data.response.recommended_action
                   = healing_evaluate_problem(local_engine(Node),
                         request.problem_description)]_vars

\* the answer MIGRATE to the peer's request about a node failure
C11_Witness ==
    /\ last.op = "Dispatch"
    /\ last.message.type = HIVE_MSG_HEALING_REQUEST
    /\ Len(outbox) = 1
    /\ outbox[1].type = HIVE_MSG_HEALING_RESPONSE
    /\ outbox[1].recipient_id = PEER_ID
    /\ outbox[1].data.response.problem_id = 7
    /\ outbox[1].data.response.responding_node = NODE_ID
    /\ outbox[1].data.response.recommended_action = HEALING_MIGRATE

\* C15: with the engine absent, hive_coordinate_healing sends nothing and
\* does not advance the sequence counter.
C15_FailsFastWithoutOracle ==
    [][(last'.op = "CoordinateHealing" /\ ~coordinator.local_engine) =>
        /\ outbox' = <<>>
        /\ coordinator'.sequence_counter
               = coordinator.sequence_counter]_vars

\* C16: the dispatch of a HealingResponse or of an EmergencySignal sends
\* nothing and leaves the coordinator, the store, the topology, the rules
\* and the autonomy level as they were.
C16_NoAutomaticAction ==
    [][(/\ last'.op = "Dispatch"
        /\ last'.message.type \in {HIVE_MSG_HEALING_RESPONSE,
                                   HIVE_MSG_EMERGENCY_SIGNAL}) =>
        /\ outbox' = <<>>
        /\ UNCHANGED <<coordinator, atomspace, topology, healing_rules,
                       autonomy_level>>]_vars

\* a HealingResponse dispatched to a coordinator that has sent envelopes,
\* holds a fact and knows a peer
C16_Witness ==
    /\ last.op = "Dispatch"
    /\ last.message.type = HIVE_MSG_HEALING_RESPONSE
    /\ coordinator.sequence_counter > 0
    /\ atomspace.atom_count > 0
    /\ topology.node_count > 0

NoRuleApplies(rules, problem_desc) ==
    \A i \in 1..Len(rules) : ~strstr(problem_desc, rules[i].condition)

\* C20: with the engine present, a description in which no rule's
\* condition occurs evaluates to HEALING_RETRY, and hive_coordinate_healing
\* broadcasts one HealingRequest suggesting RETRY for it.
C20_NoRuleMeansRetry ==
    [][(/\ last'.op = "CoordinateHealing"
        /\ coordinator.local_engine
        /\ NoRuleApplies(healing_rules, last'.problem_desc)) =>
        /\ healing_evaluate_problem(local_engine(Node), last'.problem_desc)
               = HEALING_RETRY
        /\ Len(outbox') = 1
        /\ outbox'[1].type = HIVE_MSG_HEALING_REQUEST
        /\ outbox'[1].recipient_id = 0
        /\ outbox'[1].data.request.suggested_action = HEALING_RETRY]_vars

\* the escalation of "link flap" while no rule mentions it
C20_Witness ==
    /\ last.op = "CoordinateHealing"
    /\ coordinator.local_engine
    /\ last.problem_desc = <<"link", "flap">>
    /\ NoRuleApplies(healing_rules, last.problem_desc)
    /\ Len(outbox) = 1
    /\ outbox[1].data.request.suggested_action = HEALING_RETRY

NodesWithId(topo, id) ==
    {i \in 1..Len(topo.nodes) : topo.nodes[i].node_id = id}

HealthOf(topo, id) ==
    topo.nodes[CHOOSE i \in NodesWithId(topo, id) : TRUE].health_score

\* C12: the dispatch of a Heartbeat from sender s leaves exactly one node
\* with id s in the topology, with health 1.0; node_count grows by one iff
\* s was not there before; the other nodes are the same nodes with the
\* same health; nothing is sent.
C12_HeartbeatUpsertsSender ==
    [][(/\ last'.op = "Dispatch"
        /\ last'.message.type = HIVE_MSG_HEARTBEAT) =>
        LET s      == last'.message.sender_id
            before == {topology.nodes[i].node_id :
                           i \in 1..Len(topology.nodes)}
            after  == {topology'.nodes[i].node_id :
                           i \in 1..Len(topology'.nodes)}
        IN  /\ Cardinality(NodesWithId(topology', s)) = 1
            /\ HealthOf(topology', s) = One
            /\ topology'.node_count
                   = topology.node_count + (IF s \in before THEN 0 ELSE 1)
            /\ topology'.node_count = Len(topology'.nodes)
            /\ after = before \cup {s}
            /\ \A id \in before \ {s} :
                   /\ Cardinality(NodesWithId(topology', id)) = 1
                   /\ HealthOf(topology', id) = HealthOf(topology, id)
            /\ outbox' = <<>>
            /\ coordinator' = coordinator]_vars

\* a heartbeat of a peer already known (it is not at the head of the
\* list), next to a node whose health is 0.5
C12_Witness ==
    /\ last.op = "Dispatch"
    /\ last.message.type = HIVE_MSG_HEARTBEAT
    /\ last.message.sender_id = PEER_ID
    /\ topology.node_count = 2
    /\ topology.nodes[2].node_id = PEER_ID
    /\ HealthOf(topology, PEER_ID) = One
    /\ HealthOf(topology, THIRD_ID) = Half

\* C13: sending an envelope whose payload is longer than 512 bytes makes
\* no transport call: nothing is handed to the transport and no sequence
\* number is used.
C13_OversizedPayloadRejected ==
    [][(last'.op = "Send" /\ last'.length > 512) =>
        /\ outbox' = <<>>
        /\ coordinator'.sequence_counter
               = coordinator.sequence_counter]_vars

Malformed(message) ==
    \/ message.type \notin {HIVE_MSG_HEARTBEAT, HIVE_MSG_KNOWLEDGE_SHARE,
                            HIVE_MSG_HEALING_REQUEST,
                            HIVE_MSG_HEALING_RESPONSE,
                            HIVE_MSG_TOPOLOGY_UPDATE,
                            HIVE_MSG_EMERGENCY_SIGNAL}
    \/ /\ message.type = HIVE_MSG_KNOWLEDGE_SHARE
       /\ message.data_length # SIZEOF_KNOWLEDGE_PACKET
    \/ /\ message.type = HIVE_MSG_HEALING_REQUEST
       /\ message.data_length # SIZEOF_HEALING_REQUEST

\* C14: the dispatch of an envelope of unknown type, or of a KnowledgeShare
\* or HealingRequest whose payload has the wrong length, is not dropped
\* silently: it leaves a trace in the coordinator, its engine or its
\* outbox (the handler returns nothing, so an error can only show there).
C14_MalformedNotDropped ==
    [][(last'.op = "Dispatch" /\ Malformed(last'.message)) =>
        ~(/\ outbox' = <<>>
          /\ UNCHANGED <<coordinator, atomspace, topology, healing_rules,
                         autonomy_level, problem_id_counter>>)]_vars

AtMostOne(x) ==
    IF RGt(x, One) THEN One ELSE x

\* 0.4*health + 0.3*min(1, count/100) + 0.3*previous, at most 1
EmergenceOf(health, count, previous) ==
    AtMostOne(RAdd(RAdd(RMul(R(4, 10), health),
                        RMul(R(3, 10), AtMostOne(R(count, 100)))),
                   RMul(R(3, 10), previous)))

\* C17: a cycle runs the knowledge sync iff now - last_knowledge_sync >= 60.
\* A syncing cycle sets the score to the emergence factor of the network
\* health, the store's atom count and the previous score, and sets
\* last_knowledge_sync to now; any other cycle leaves the score,
\* last_knowledge_sync and the autonomy level alone.
C17_SyncTiming ==
    [][last'.op = "Tick" =>
        IF now - coordinator.last_knowledge_sync >= 60
        THEN /\ coordinator'.collective_intelligence_score
                    = EmergenceOf(topology.overall_health,
                          atomspace'.atom_count,
                          coordinator.collective_intelligence_score)
             /\ coordinator'.last_knowledge_sync = now
        ELSE /\ coordinator'.collective_intelligence_score
                    = coordinator.collective_intelligence_score
             /\ coordinator'.last_knowledge_sync
                    = coordinator.last_knowledge_sync
             /\ autonomy_level' = autonomy_level
             /\ atomspace' = atomspace]_vars

\* the sync of the cycle exactly 60 s after creation, computed from a
\* score that an earlier update had moved away from 0.5
C17_Witness ==
    /\ last.op = "Tick"
    /\ now = CreatedAt + 60
    /\ coordinator.last_knowledge_sync = now
    /\ store_ops = 2
    /\ topology.overall_health = R(4, 5)
    /\ coordinator.collective_intelligence_score
           # EmergenceOf(topology.overall_health, atomspace.atom_count,
                         Half)

\* C18: the adaptive update sets the autonomy level to 0.9 when the
\* emergence factor e it has just computed is above 0.8, to 0.3 when e is
\* below 0.3, and leaves it alone for 0.3 <= e <= 0.8.
C18_AutonomyThresholds ==
    [][last'.op = "AdaptiveUpdate" =>
        LET e == EmergenceOf(topology.overall_health, atomspace.atom_count,
                             coordinator.collective_intelligence_score)
        IN  autonomy_level' =
                IF RGt(e, R(8, 10)) THEN R(9, 10)
                ELSE IF RLt(e, R(3, 10)) THEN R(3, 10)
                ELSE autonomy_level]_vars

\* an update whose factor is exactly 0.8 and that left the autonomy at its
\* initial 0.5
C18_Witness ==
    /\ last.op = "AdaptiveUpdate"
    /\ coordinator.collective_intelligence_score = R(8, 10)
    /\ autonomy_level = R(5, 10)

\* C19: hive_calculate_emergence_factor returns 0.4*health +
\* 0.3*min(1, atom_count/100) + 0.3*score, which is 0.54 for health 0.6,
\* 50 atoms and score 0.5, and the call leaves the coordinator as it was.
C19_EmergenceFormula ==
    [][last'.op = "EmergenceFactor" =>
        /\ last'.value
               = EmergenceOf(topology.overall_health, atomspace.atom_count,
                             coordinator.collective_intelligence_score)
        /\ (/\ topology.overall_health = R(6, 10)
            /\ atomspace.atom_count = 50
            /\ coordinator.collective_intelligence_score = R(5, 10))
               => last'.value = R(54, 100)
        /\ coordinator' = coordinator]_vars

\* the factor 0.54 of health 0.6, 50 atoms and score 0.5
C19_Witness ==
    /\ last.op = "EmergenceFactor"
    /\ last.value = R(54, 100)
    /\ topology.overall_health = R(6, 10)
    /\ atomspace.atom_count = 50
    /\ Len(atomspace.atoms) = 50
    /\ coordinator.collective_intelligence_score = R(5, 10)

NamesIn(space) ==
    {space.atoms[i].name : i \in 1..Len(space.atoms)}

\* C22: an upsert of a name that no stored fact carries puts one fact with
\* truth 0.5, confidence 0.5 and importance 1.0 in front of the others and
\* counts it; an upsert of a stored name adds 0.1 to the importance of one
\* fact of that name and changes nothing else in the store.
C22_UpsertFrame ==
    [][last'.op = "Upsert" =>
        IF last'.name \in NamesIn(atomspace)
        THEN \E i \in 1..Len(atomspace.atoms) :
                 /\ atomspace.atoms[i].name = last'.name
                 /\ atomspace' =
                        [atomspace EXCEPT !.atoms[i].importance =
                                              RAdd(@, R(1, 10))]
        ELSE /\ Len(atomspace'.atoms) = Len(atomspace.atoms) + 1
             /\ atomspace'.atom_count = atomspace.atom_count + 1
             /\ Tail(atomspace'.atoms) = atomspace.atoms
             /\ atomspace'.atoms[1].truth_value = R(5, 10)
             /\ atomspace'.atoms[1].confidence = R(5, 10)
             /\ atomspace'.atoms[1].importance = One
             /\ atomspace'.atoms[1].type = last'.kind]_vars

\* a second reference to "a", at a later time than the first: importance
\* 1.1 and the timestamp of the creation
C22_Witness ==
    /\ last.op = "Upsert"
    /\ last.name = <<"a">>
    /\ now > CreatedAt
    /\ Len(atomspace.atoms) = 2
    /\ atomspace.atoms[2].name = <<"a">>
    /\ atomspace.atoms[2].importance = R(11, 10)
    /\ atomspace.atoms[2].timestamp = CreatedAt

\* C23: no step removes a fact: every stored name stays stored, atom_count
\* never decreases and atom_count is the number of stored facts.
C23_StoreOnlyGrows ==
    [][/\ NamesIn(atomspace) \subseteq NamesIn(atomspace')
       /\ atomspace'.atom_count >= atomspace.atom_count
       /\ Len(atomspace'.atoms) >= Len(atomspace.atoms)
       /\ atomspace'.atom_count = Len(atomspace'.atoms)]_vars

\* the dispatch of a KnowledgeShare about "f" into a store that already
\* holds the collective_health fact
C23_Witness ==
    /\ last.op = "Dispatch"
    /\ last.message.type = HIVE_MSG_KNOWLEDGE_SHARE
    /\ atomspace.atom_count = 2
    /\ atomspace.atoms[1].name = <<"f">>
    /\ atomspace.atoms[2].name = CollectiveName(One)

InUnit(x) ==
    RLe(Zero, x) /\ RLe(x, One)

Between(x, a, b) ==
    \/ RLe(a, x) /\ RLe(x, b)
    \/ RLe(b, x) /\ RLe(x, a)

\* C24: a merge of a truth and a confidence in [0,1] into a fact whose
\* truth and confidence are in [0,1] leaves them in [0,1], and when the
\* two confidences are not both 0 the new truth lies between the old
\* truth and the incoming one.
C24_MergeStaysInRange ==
    [][(/\ last'.op = "Merge"
        /\ InUnit(last'.in.truth) /\ InUnit(last'.in.confidence)
        /\ InUnit(atomspace.atoms[1].truth_value)
        /\ InUnit(atomspace.atoms[1].confidence)) =>
        /\ InUnit(atomspace'.atoms[1].truth_value)
        /\ InUnit(atomspace'.atoms[1].confidence)
        /\ RGt(RAdd(atomspace.atoms[1].confidence, last'.in.confidence),
               Zero)
             => Between(atomspace'.atoms[1].truth_value,
                        atomspace.atoms[1].truth_value,
                        last'.in.truth)]_vars

\* two full confidences: truth 1 merged into truth 9/10 gives 19/20
C24_Witness ==
    /\ last.op = "Merge"
    /\ last.in = [truth |-> One, confidence |-> One]
    /\ atomspace.atoms[1].truth_value = R(19, 20)
    /\ atomspace.atoms[1].confidence = One

\* C25: the collective intelligence score is in [0,1] in every state.
C25_ScoreInRange ==
    InUnit(coordinator.collective_intelligence_score)

\* a score stored by a sync, with a peer in the topology
C25_Witness ==
    /\ last.op = "Tick"
    /\ coordinator.last_knowledge_sync = now
    /\ topology.node_count = 1
    /\ coordinator.collective_intelligence_score # Half
    /\ RGt(coordinator.collective_intelligence_score, Zero)

(***************************************************************************)
(* Several coordinators in one process, each with an engine of its own,    *)
(* joined by a transport that hands every envelope it was given to any     *)
(* node, any number of times and in any order, or never.  The application  *)
(* creates requests, asks for assistance and answers requests through the  *)
(* coordinator's operations, as the integration test does.                 *)
(***************************************************************************)
\* a faulty counter: every coordinator counts its own requests
HiveNode_own_counter(i) ==
    [coordinator        |-> hive[i].coordinator,
     atomspace          |-> hive[i].atomspace,
     topology           |-> hive[i].topology,
     healing_rules      |-> hive[i].healing_rules,
     autonomy_level     |-> hive[i].autonomy_level,
     problem_id_counter |->
         1 + Cardinality({r \in 1..Len(requests) :
                             requests[r].request.requesting_node = i}),
     outbox             |-> <<>>]

\* coordinator i and its engine, with the counter of the process
HiveNode(i) ==
    [coordinator        |-> hive[i].coordinator,
     atomspace          |-> hive[i].atomspace,
     topology           |-> hive[i].topology,
     healing_rules      |-> hive[i].healing_rules,
     autonomy_level     |-> hive[i].autonomy_level,
     problem_id_counter |-> problem_id_counter,
     outbox             |-> <<>>]

\* node i becomes n2; created holds the requests the operation created,
\* each with whether the application still holds it when the operation has
\* returned, and the envelopes it sent go to the transport
HiveCommit(i, n2, created, l) ==
    /\ n2.coordinator.sequence_counter <= MaxSeq
    /\ Len(sent) + Len(n2.outbox) <= MaxSent
    /\ n2.problem_id_counter <= MaxProblemId
    /\ n2.atomspace # hive[i].atomspace => store_ops < MaxNodeStoreOps
    /\ hive' = [hive EXCEPT ![i] =
                   [coordinator    |-> n2.coordinator,
                    atomspace      |-> n2.atomspace,
                    topology       |-> n2.topology,
                    healing_rules  |-> n2.healing_rules,
                    autonomy_level |-> n2.autonomy_level]]
    /\ problem_id_counter' = n2.problem_id_counter
    /\ outbox' = n2.outbox
    /\ sent' = sent \o n2.outbox
    /\ requests' = requests \o created
    /\ store_ops' = IF n2.atomspace # hive[i].atomspace THEN store_ops + 1
                    ELSE store_ops
    /\ last' = l
    /\ UNCHANGED <<now, atomspace, replica, topology, healing_rules,
                   autonomy_level, coordinator, threads, serialized>>

\* the transport hands the k-th envelope it was given to node to
HiveDeliver(k, to) ==
    /\ k \in 1..Len(sent)
    /\ sent[k].recipient_id \in {0, to}
    /\ HiveCommit(to, receive_message_impl(HiveNode(to), sent[k], now),
                  <<>>,
                  [op |-> "Dispatch", node |-> to, message |-> sent[k]])

HiveCoordinateHealing(i, problem_desc) ==
    LET n == HiveNode(i)
    IN  HiveCommit(i, hive_coordinate_healing(n, problem_desc, now),
                   <<[request |-> healing_request_create(problem_desc,
                                      R(8, 10), i, n.problem_id_counter,
                                      now),
                      held |-> FALSE]>>,
                   [op |-> "CoordinateHealing", node |-> i,
                    problem_desc |-> problem_desc])

\* the problem the integration test asks the hive about
AppDescriptions == {<<"distributed_network_partitioning">>}

\* the application creates a request with healing_request_create
HiveCreateRequest(i, problem_desc) ==
    LET n == HiveNode(i)
    IN  HiveCommit(i, [n EXCEPT !.problem_id_counter = @ + 1],
                   <<[request |-> healing_request_create(problem_desc,
                                      R(19, 20), i, n.problem_id_counter,
                                      now),
                      held |-> TRUE]>>,
                   [op |-> "CreateRequest", node |-> i,
                    problem_desc |-> problem_desc])

\* the application asks for assistance with a request it created for i
HiveRequestAssistance(i, r) ==
    /\ r \in 1..Len(requests)
    /\ requests[r].held
    /\ requests[r].request.requesting_node = i
    /\ HiveCommit(i, request_healing_assistance_impl(HiveNode(i),
                      requests[r].request, now),
                  <<>>,
                  [op |-> "RequestAssistance", node |-> i,
                   request |-> requests[r].request])

\* the application answers a request it holds
HiveRespond(i, r) ==
    /\ r \in 1..Len(requests)
    /\ requests[r].held
    /\ HiveCommit(i, respond_to_healing_request_impl(HiveNode(i),
                      requests[r].request, now),
                  <<>>,
                  [op |-> "Respond", node |-> i,
                   request |-> requests[r].request])

NextHive ==
    \/ \E k \in 1..MaxSent, to \in HiveIds : HiveDeliver(k, to)
    \/ \E i \in HiveIds, d \in Descriptions : HiveCoordinateHealing(i, d)
    \/ \E i \in HiveIds, d \in AppDescriptions : HiveCreateRequest(i, d)
    \/ \E i \in HiveIds, r \in 1..MaxProblemId : HiveRequestAssistance(i, r)
    \/ \E i \in HiveIds, r \in 1..MaxProblemId : HiveRespond(i, r)

SpecHive == Init /\ [][NextHive]_vars

(***************************************************************************)
(* Claims about the hive.                                                  *)
(***************************************************************************)
\* C21: every request created in the process, by any coordinator, through
\* CoordinateHealing or through healing_request_create, has a problem id
\* strictly greater than that of every request created before it, so no two
\* requests share a problem id.
C21_ProblemIdsIncrease ==
    \A a, b \in 1..Len(requests) :
        a < b => requests[a].request.problem_id
                     < requests[b].request.problem_id

\* two coordinators created a request each, one by CoordinateHealing and
\* one by healing_request_create
C21_Witness ==
    \E a, b \in 1..Len(requests) :
        /\ a < b
        /\ requests[a].request.requesting_node
               # requests[b].request.requesting_node
        /\ requests[a].held # requests[b].held

IsRequestEnvelope(m) ==
    /\ m.type = HIVE_MSG_HEALING_REQUEST
    /\ m.data_length = SIZEOF_HEALING_REQUEST

IsResponseEnvelope(m) ==
    /\ m.type = HIVE_MSG_HEALING_RESPONSE
    /\ m.data_length = SIZEOF_HEALING_RESPONSE

\* the response envelope m carries the problem id of request q and goes to
\* the node that asked
AnswersRequest(m, q) ==
    /\ m.data.response.problem_id = q.problem_id
    /\ m.recipient_id = q.requesting_node

\* the k-th envelope answers a request that was sent before it
AnswersSentRequest(k) ==
    \E j \in 1..(k - 1) :
        /\ IsRequestEnvelope(sent[j])
        /\ AnswersRequest(sent[k], sent[j].data.request)

C29_DispatchSendsAtMostOne ==
    last.op = "Dispatch" =>
        /\ Len(outbox) <= 1
        /\ outbox # <<>> =>
               /\ IsRequestEnvelope(last.message)
               /\ IsResponseEnvelope(outbox[1])
        /\ last.message.type = HIVE_MSG_HEALING_RESPONSE => outbox = <<>>

\* the response to a request was handed to the requester, and nothing was
\* sent
C29_Witness ==
    /\ last.op = "Dispatch"
    /\ IsResponseEnvelope(last.message)
    /\ last.node = last.message.recipient_id
    /\ \E j \in 1..Len(sent) :
           /\ IsRequestEnvelope(sent[j])
           /\ AnswersRequest(last.message, sent[j].data.request)
    /\ outbox = <<>>

(***************************************************************************)
(* Gossip: the engine of the first node learnt a fact before the           *)
(* coordinators were created; the cycles of the nodes share it and the     *)
(* transport hands the shares around.                                      *)
(***************************************************************************)
GossipName == <<"f">>

InitGossip ==
    /\ now = CreatedAt
    /\ atomspace = atomspace_create
    /\ replica = atomspace_create
    /\ store_ops = 0
    /\ last = [op |-> "create"]
    /\ InitNode
    /\ hive = [i \in HiveIds |->
                 IF i = NODE_ID
                 THEN [hive_member_create(i, CreatedAt)
                       EXCEPT !.atomspace =
                           atomspace_add_atom(atomspace_create,
                               ATOM_CONCEPT, GossipName, OldStamp).space]
                 ELSE hive_member_create(i, CreatedAt)]
    /\ sent = <<>>
    /\ requests = <<>>
    /\ threads = IdleThreads
    /\ serialized = TRUE

HiveTick(i) ==
    HiveCommit(i, hive_coordinator_process_cycle(HiveNode(i), now), <<>>,
               [op |-> "Tick", node |-> i])

NextGossip ==
    \/ Advance
    \/ \E i \in HiveIds : HiveTick(i)
    \/ \E k \in 1..MaxSent, to \in HiveIds : HiveDeliver(k, to)

SpecGossip == InitGossip /\ [][NextGossip]_vars

IsShareOf(m, name) ==
    /\ m.type = HIVE_MSG_KNOWLEDGE_SHARE
    /\ m.data_length = SIZEOF_KNOWLEDGE_PACKET
    /\ m.data.packet.atom_name = name

\* C30: propagation never refreshes the recency of a fact: every copy of
\* the fact, on every node, keeps the timestamp the origin gave it, and no
\* cycle of any node shares the fact once it is 300 s or more past that
\* timestamp.
C30_GossipKeepsOriginStamp ==
    /\ \A i \in HiveIds :
           \A a \in 1..Len(hive[i].atomspace.atoms) :
               hive[i].atomspace.atoms[a].name = GossipName =>
                   hive[i].atomspace.atoms[a].timestamp = OldStamp
    /\ last.op = "Tick" =>
           \A k \in 1..Len(outbox) :
               IsShareOf(outbox[k], GossipName) =>
                   /\ outbox[k].data.packet.timestamp = OldStamp
                   /\ now - OldStamp < SHARE_WINDOW

\* a node that has the fact only from a share of the origin shares it on
\* its own cycle, 299 s after the origin's timestamp
C30_Witness ==
    /\ last.op = "Tick"
    /\ last.node = PEER_ID
    /\ Len(outbox) = 1
    /\ IsShareOf(outbox[1], GossipName)
    /\ outbox[1].sender_id = PEER_ID
    /\ now - outbox[1].data.packet.timestamp = SHARE_WINDOW - 1

(***************************************************************************)
(* Two threads per coordinator: a ticker that runs the cycle and a         *)
(* dispatcher that is handed inbound envelopes.  A call is executed in     *)
(* the steps of its loads and stores.  With serialized, a thread enters a  *)
(* call only while no other thread of its node is inside one.              *)
(***************************************************************************)
raceFrame == <<atomspace, replica, store_ops, topology, healing_rules,
               autonomy_level, coordinator, problem_id_counter, outbox,
               requests, serialized>>

InCall(th) ==
    threads[th].pc \notin {"idle", "done"}

MayEnter(th) ==
    /\ threads[th].pc = "idle"
    /\ serialized => \A o \in ThreadIds : o[1] = th[1] => ~InCall(o)

ThreadAt(th, pc) ==
    [threads EXCEPT ![th].pc = pc]

\* the request the transport hands to the dispatcher of node i
RaceRequest(i) ==
    LET other == CHOOSE j \in HiveIds : j # i
    IN  PeerMessage(other, HIVE_MSG_HEALING_REQUEST,
            [kind |-> "healing_request",
             request |-> healing_request_create(<<"disk_full">>, R(19, 20),
                             other, 1, CreatedAt)],
            SIZEOF_HEALING_REQUEST)

\* the envelope the call of the thread passes to send_message
ThreadEnvelope(th) ==
    IF th[2] = "ticker"
    THEN hive_coordinator_process_cycle(HiveNode(th[1]), now).outbox[1]
    ELSE receive_message_impl(HiveNode(th[1]), RaceRequest(th[1]),
                              now).outbox[1]

\* a faulty increment: the counter is written back as it was read
NextSequence_same(counter_read) ==
    counter_read

\* ++coordinator->sequence_counter, on the value that was loaded
NextSequence(counter_read) ==
    counter_read + 1

InitSendRace ==
    /\ now = CreatedAt + HEARTBEAT_INTERVAL
    /\ atomspace = atomspace_create
    /\ replica = atomspace_create
    /\ store_ops = 0
    /\ last = [op |-> "create"]
    /\ InitNode
    /\ hive = [i \in HiveIds |-> hive_member_create(i, CreatedAt)]
    /\ sent = <<>>
    /\ requests = <<>>
    /\ threads = IdleThreads
    /\ serialized \in BOOLEAN

\* the thread enters send_message and loads the counter
SendRead(th) ==
    /\ MayEnter(th)
    /\ threads' = [threads EXCEPT ![th] =
                      [@ EXCEPT !.pc = "write",
                                !.counter_read =
                                    hive[th[1]].coordinator.sequence_counter]]
    /\ last' = [op |-> "SendRead", thread |-> th]
    /\ UNCHANGED <<now, hive, sent, raceFrame>>

\* the thread stores the incremented counter
SendWrite(th) ==
    /\ threads[th].pc = "write"
    /\ hive' = [hive EXCEPT ![th[1]].coordinator.sequence_counter =
                   NextSequence(threads[th].counter_read)]
    /\ threads' = ThreadAt(th, "transmit")
    /\ last' = [op |-> "SendWrite", thread |-> th]
    /\ UNCHANGED <<now, sent, raceFrame>>

\* the envelope gets the incremented value and is handed to the transport;
\* the cycle then notes the time of its heartbeat
SendTransmit(th) ==
    /\ threads[th].pc = "transmit"
    /\ sent' = Append(sent, [ThreadEnvelope(th) EXCEPT !.sequence_number =
                                NextSequence(threads[th].counter_read)])
    /\ hive' = IF th[2] = "ticker"
               THEN [hive EXCEPT ![th[1]].coordinator.last_heartbeat = now]
               ELSE hive
    /\ threads' = ThreadAt(th, "done")
    /\ last' = [op |-> "SendTransmit", thread |-> th]
    /\ UNCHANGED <<now, raceFrame>>

NextSendRace ==
    \/ \E th \in ThreadIds : SendRead(th)
    \/ \E th \in ThreadIds : SendWrite(th)
    \/ \E th \in ThreadIds : SendTransmit(th)

SpecSendRace == InitSendRace /\ [][NextSendRace]_vars

SameSequence(a, b) ==
    /\ sent[a].sender_id = sent[b].sender_id
    /\ sent[a].sequence_number = sent[b].sequence_number

\* C27: when the sends of each node are serialized, no two envelopes of a
\* node carry the same sequence number, however the cycles and dispatches
\* of the nodes interleave.
C27_SerializedSendsUnique ==
    serialized =>
        \A a, b \in 1..Len(sent) : a < b => ~SameSequence(a, b)

\* without serialization the heartbeat of a cycle and the response of a
\* dispatch of the same node left with the same sequence number
C27_Witness ==
    /\ ~serialized
    /\ \E a, b \in 1..Len(sent) :
           /\ a # b
           /\ SameSequence(a, b)
           /\ sent[a].type = HIVE_MSG_HEARTBEAT
           /\ sent[b].type = HIVE_MSG_HEALING_RESPONSE

(***************************************************************************)
(* The merge in steps: the knowledge sync of the cycle and the dispatch    *)
(* of a knowledge share write the same fact of the first node.             *)
(***************************************************************************)
\* the first node after a sync at creation: its store holds the fact
RaceMember ==
    hive_update_collective_topology(hive_member_create(NODE_ID, CreatedAt),
                                    CreatedAt)

RaceFactName == CollectiveName(One)

\* the peer's copy of the fact, as its share carries it
RacePacket ==
    knowledge_packet_from_atom(
        hive_update_collective_topology(
            hive_member_create(PEER_ID, CreatedAt),
            CreatedAt).atomspace.atoms[1])

MergeThreads == {th \in ThreadIds : th[1] = NODE_ID}

\* the arguments of atomspace_update_truth_value in the call of the thread
MergeInput(th) ==
    IF th[2] = "ticker"
    THEN [truth |-> hive[th[1]].topology.overall_health,
          confidence |-> R(9, 10)]
    ELSE [truth |-> RacePacket.truth_value,
          confidence |-> RacePacket.confidence]

FactIndex(i) ==
    atomspace_find_atom(hive[i].atomspace, RaceFactName)

\* total_weight = old_weight + new_weight, with the old weight as loaded
total_weight(th) ==
    RAdd(threads[th].old_weight, MergeInput(th).confidence)

\* a faulty average: the confidence becomes the total weight
averaged_confidence_total(total) ==
    total

\* total_weight / 2.0f
averaged_confidence(total) ==
    RDiv(total, R(2, 1))

InitMergeRace ==
    /\ now = CreatedAt + SYNC_INTERVAL
    /\ atomspace = atomspace_create
    /\ replica = atomspace_create
    /\ store_ops = 0
    /\ last = [op |-> "create"]
    /\ InitNode
    /\ hive = [i \in HiveIds |->
                 IF i = NODE_ID THEN RaceMember
                 ELSE hive_member_create(i, CreatedAt)]
    /\ sent = <<>>
    /\ requests = <<>>
    /\ threads = IdleThreads
    /\ serialized \in BOOLEAN

\* the thread upserts the fact (found: importance + 0.1) and enters
\* atomspace_update_truth_value: old_weight = atom->confidence
MergeRead(th) ==
    /\ th \in MergeThreads
    /\ MayEnter(th)
    /\ LET added == atomspace_add_atom(hive[th[1]].atomspace, ATOM_CONCEPT,
                                       RaceFactName, now)
           old_weight == added.space.atoms[added.idx].confidence
       IN  /\ hive' = [hive EXCEPT ![th[1]].atomspace = added.space]
           /\ threads' = [threads EXCEPT ![th] =
                  [@ EXCEPT !.old_weight = old_weight,
                            !.pc = IF RGt(RAdd(old_weight,
                                               MergeInput(th).confidence),
                                          Zero)
                                   THEN "truth" ELSE "stamp"]]
    /\ last' = [op |-> "MergeRead", thread |-> th]
    /\ UNCHANGED <<now, sent, raceFrame>>

\* atom->truth_value = (atom->truth_value * old_weight + truth * new_weight)
\*                     / total_weight
MergeTruth(th) ==
    /\ threads[th].pc = "truth"
    /\ hive' = [hive EXCEPT
                   ![th[1]].atomspace.atoms[FactIndex(th[1])].truth_value =
                       RDiv(RAdd(RMul(@, threads[th].old_weight),
                                 RMul(MergeInput(th).truth,
                                      MergeInput(th).confidence)),
                            total_weight(th))]
    /\ threads' = ThreadAt(th, "confidence")
    /\ last' = [op |-> "MergeTruth", thread |-> th]
    /\ UNCHANGED <<now, sent, raceFrame>>

\* atom->confidence = total_weight / 2.0f
MergeConfidence(th) ==
    /\ threads[th].pc = "confidence"
    /\ hive' = [hive EXCEPT
                   ![th[1]].atomspace.atoms[FactIndex(th[1])].confidence =
                       averaged_confidence(total_weight(th))]
    /\ threads' = ThreadAt(th, "clamp")
    /\ last' = [op |-> "MergeConfidence", thread |-> th]
    /\ UNCHANGED <<now, sent, raceFrame>>

\* if (atom->confidence > 1.0f) atom->confidence = 1.0f
MergeClamp(th) ==
    /\ threads[th].pc = "clamp"
    /\ hive' = [hive EXCEPT
                   ![th[1]].atomspace.atoms[FactIndex(th[1])].confidence =
                       IF RGt(@, One) THEN One ELSE @]
    /\ threads' = ThreadAt(th, "stamp")
    /\ last' = [op |-> "MergeClamp", thread |-> th]
    /\ UNCHANGED <<now, sent, raceFrame>>

\* atom->timestamp = time(NULL); the decode then writes the importance and
\* the timestamp of the packet
MergeStamp(th) ==
    /\ threads[th].pc = "stamp"
    /\ hive' = [hive EXCEPT
                   ![th[1]].atomspace.atoms[FactIndex(th[1])] =
                       IF th[2] = "ticker"
                       THEN [@ EXCEPT !.timestamp = now]
                       ELSE [@ EXCEPT !.importance = RacePacket.importance,
                                      !.timestamp = RacePacket.timestamp]]
    /\ threads' = ThreadAt(th, "done")
    /\ last' = [op |-> "MergeStamp", thread |-> th]
    /\ UNCHANGED <<now, sent, raceFrame>>

NextMergeRace ==
    \/ \E th \in MergeThreads : MergeRead(th)
    \/ \E th \in MergeThreads : MergeTruth(th)
    \/ \E th \in MergeThreads : MergeConfidence(th)
    \/ \E th \in MergeThreads : MergeClamp(th)
    \/ \E th \in MergeThreads : MergeStamp(th)

SpecMergeRace == InitMergeRace /\ [][NextMergeRace]_vars

\* truth and confidence of the fact in a store
FactValues(space) ==
    LET atom == space.atoms[atomspace_find_atom(space, RaceFactName)]
    IN  <<atom.truth_value, atom.confidence>>

\* the sync first, then the dispatch of the share, each as one step
SerialSyncFirst ==
    receive_message_impl(hive_update_collective_topology(RaceMember, now),
                         KnowledgeShareOf(RacePacket), now)

\* the dispatch of the share first, then the sync
SerialDispatchFirst ==
    hive_update_collective_topology(
        receive_message_impl(RaceMember, KnowledgeShareOf(RacePacket), now),
        now)

MergesDone ==
    \A th \in MergeThreads : threads[th].pc = "done"

EligibleAt(atom, t) ==
    /\ RGt(atom.importance, R(8, 10))
    /\ t - atom.timestamp < 300

\* C31: the store lists its facts from the most recently created to the
\* oldest; a cycle shares the eligible fact nearest the head and no other
\* fact, and as nothing marks a fact as sent, a cycle that follows a cycle
\* at the same time shares the same fact again.
C31_HeadEligibleShared ==
    [][last'.op = "Tick" =>
        /\ \A i, j \in 1..Len(atomspace'.atoms) :
               i < j => atomspace'.atoms[i].id > atomspace'.atoms[j].id
        /\ \A i \in 1..Len(atomspace'.atoms) :
               (/\ EligibleAt(atomspace'.atoms[i], now)
                /\ \A j \in 1..(i - 1) :
                       ~EligibleAt(atomspace'.atoms[j], now))
               => /\ SharesOf(outbox', atomspace'.atoms[i].name) # {}
                  /\ \A k \in 1..Len(atomspace'.atoms) :
                         atomspace'.atoms[k].name # atomspace'.atoms[i].name
                         => SharesOf(outbox', atomspace'.atoms[k].name) = {}
        /\ last.op = "Tick" =>
               \A k \in Sent(outbox, HIVE_MSG_KNOWLEDGE_SHARE) :
                   SharesOf(outbox', outbox[k].data.packet.atom_name) # {}
      ]_vars

\* before any heartbeat was due, two cycles in a row shared the fact at
\* the head of the store while an older eligible fact was never shared
C31_Witness ==
    /\ last.op = "Tick"
    /\ now < CreatedAt + HEARTBEAT_INTERVAL
    /\ coordinator.sequence_counter >= 2
    /\ Len(atomspace.atoms) = 2
    /\ EligibleAt(atomspace.atoms[1], now)
    /\ EligibleAt(atomspace.atoms[2], now)
    /\ SharesOf(outbox, atomspace.atoms[1].name) # {}
    /\ SharesOf(outbox, atomspace.atoms[2].name) = {}

(***************************************************************************)
(* Reconciliation: shares of one fact, with different truth values and     *)
(* confidences, are decoded into the store as they arrive.                 *)
(***************************************************************************)
ReconcileName == <<"f">>

\* (truth, confidence) of the copies that the peers share
ReconcileValues ==
    {<<R(9, 10), R(9, 10)>>, <<R(1, 5), One>>, <<Zero, Half>>,
     <<One, Zero>>, <<Half, Half>>}

ReconcilePackets ==
    {[atom_name |-> ReconcileName, atom_type |-> ATOM_CONCEPT,
      truth_value |-> v[1], confidence |-> v[2],
      importance |-> R(17, 20), timestamp |-> CreatedAt] :
        v \in ReconcileValues}

\* the application merges a fact with the values the fact holds
MergeOwn(i) ==
    /\ i \in 1..Len(atomspace.atoms)
    /\ Merge(i, [truth |-> atomspace.atoms[i].truth_value,
                 confidence |-> atomspace.atoms[i].confidence])

NextReconcile ==
    \/ \E packet \in ReconcilePackets : Decode(packet)
    \/ \E i \in 1..MaxStoreOps : MergeOwn(i)

SpecReconcile == Init /\ [][NextReconcile]_vars

\* truth and confidence of the named fact after the packets of the
\* sequence were decoded into the store, one after the other
RECURSIVE DecodedInOrder(_, _, _)
DecodedInOrder(space, packets, t) ==
    IF packets = <<>> THEN space
    ELSE DecodedInOrder(knowledge_packet_to_atom(space, packets[1], t).space,
                        Tail(packets), t)

TruthAndConfidence(space, name) ==
    LET atom == space.atoms[atomspace_find_atom(space, name)]
    IN  <<atom.truth_value, atom.confidence>>

\* C32: two shares of one fact leave the same truth value and confidence
\* in the store whichever of them is decoded first: when a second share
\* has been decoded into a store that was empty before the first, the fact
\* is what decoding the two in the other order gives.
C32_ArrivalOrderIrrelevant ==
    [][(/\ store_ops = 1
        /\ last.op = "Decode"
        /\ last'.op = "Decode")
       => TruthAndConfidence(atomspace', ReconcileName)
          = TruthAndConfidence(
                DecodedInOrder(atomspace_create,
                               <<last'.packet, last.packet>>, now),
                ReconcileName)]_vars

\* x lies between a and b and, unless a = b, is not a
MovedToward(x, a, b) ==
    /\ Between(x, a, b)
    /\ a # b => x # a

\* C33: a merge of a fact of positive confidence with the truth value and
\* the confidence it holds leaves both as they are; a decode of a packet
\* into a store that holds the fact leaves the truth value between the
\* old one and the packet's (off the old one when the packet has weight),
\* and the confidence between the old one and the packet's, off the old
\* one.
C33_MergeIsIdempotentAndBounded ==
    [][LET i   == atomspace_find_atom(atomspace, ReconcileName)
           old == atomspace.atoms[i]
           new == atomspace'.atoms[i]
       IN  /\ (/\ last'.op = "Merge"
               /\ last'.in = [truth |-> old.truth_value,
                              confidence |-> old.confidence]
               /\ RGt(old.confidence, Zero))
              => /\ new.truth_value = old.truth_value
                 /\ new.confidence = old.confidence
           /\ (last'.op = "Decode" /\ i # 0)
              => /\ Between(new.truth_value, old.truth_value,
                            last'.packet.truth_value)
                 /\ RGt(last'.packet.confidence, Zero) =>
                        MovedToward(new.truth_value, old.truth_value,
                                    last'.packet.truth_value)
                 /\ MovedToward(new.confidence, old.confidence,
                                last'.packet.confidence)
      ]_vars

\* one packet was decoded three times in a row: the fact has moved toward
\* the packet's values and has not reached them
C33_Witness ==
    /\ last.op = "Decode"
    /\ store_ops = 3
    /\ atomspace = DecodedInOrder(atomspace_create,
                       <<last.packet, last.packet, last.packet>>, now)
    /\ TruthAndConfidence(atomspace, ReconcileName)
           # <<last.packet.truth_value, last.packet.confidence>>
    /\ last.packet.truth_value # Half

(***************************************************************************)
(* The engine learns from its healing attempts: the application calls      *)
(* diagnose_and_heal on the engine and hive_coordinate_healing on its      *)
(* coordinator.                                                            *)
(***************************************************************************)
\* diagnose_and_heal_impl: evaluate, execute (no effect on the engine) and
\* count an attempt for the first rule that matches and has the action
diagnose_and_heal_impl(rules, problem_desc) ==
    LET action  == healing_evaluate_problem(
                       [present |-> TRUE, healing_rules |-> rules],
                       problem_desc)
        learnt  == {i \in 1..Len(rules) :
                       /\ strstr(problem_desc, rules[i].condition)
                       /\ rules[i].action = action}
        first   == CHOOSE i \in learnt : \A j \in learnt : i <= j
    IN  [action        |-> action,
         healing_rules |-> IF learnt = {} THEN rules
                           ELSE [rules EXCEPT ![first].attempt_count =
                                                  @ + 1]]

DiagnoseDescriptions ==
    {<<"node_failure">>, <<"connection_failed">>, <<"timeout">>,
     <<"disk_full">>}

DiagnoseAndHeal(problem_desc) ==
    LET done == diagnose_and_heal_impl(healing_rules, problem_desc)
    IN  /\ \A i \in 1..Len(done.healing_rules) :
               done.healing_rules[i].attempt_count <= MaxAttempts
        /\ healing_rules' = done.healing_rules
        /\ outbox' = <<>>
        /\ last' = [op |-> "DiagnoseAndHeal", problem_desc |-> problem_desc,
                    action |-> done.action]
        /\ UNCHANGED <<hiveVars, now, storeVars, topology, autonomy_level,
                       coordinator, problem_id_counter>>

NextDiagnose ==
    \/ \E d \in DiagnoseDescriptions : DiagnoseAndHeal(d)
    \/ \E d \in DiagnoseDescriptions : CoordinateHealing(d)

SpecDiagnose == Init /\ [][NextDiagnose]_vars

\* the actions of the registered rules of positive confidence whose
\* condition the description contains
MatchingActions(rules, problem_desc) ==
    {rules[i].action : i \in {j \in 1..Len(rules) :
        /\ strstr(problem_desc, rules[j].condition)
        /\ RGt(rules[j].confidence, Zero)}}

\* C34: for a description that contains the condition of a registered rule
\* of positive confidence, healing_evaluate_problem returns the action of
\* a matching rule in every reachable state of the engine, also after
\* diagnose_and_heal has counted attempts; so hive_coordinate_healing
\* escalates a description exactly when it would with the rules as they
\* were registered.
C34_MatchingRuleAnswers ==
    /\ \A d \in DiagnoseDescriptions :
           MatchingActions(healing_rules, d) # {} =>
               healing_evaluate_problem(local_engine(Node), d)
                   \in MatchingActions(healing_rules, d)
    /\ last.op = "CoordinateHealing" =>
           (outbox # <<>>)
           = (healing_evaluate_problem(
                  [present |-> TRUE, healing_rules |-> DefaultRules],
                  last.problem_desc) \in {HEALING_NONE, HEALING_RETRY})

(***************************************************************************)
(* The heartbeat under a scheduler that keeps calling the cycle: the       *)
(* clock is read, the cycle runs once on that reading, and time goes on.   *)
(***************************************************************************)
\* the clock readings: around one, two and three heartbeat intervals
\* after creation
MaxBeats == 3

BeatTimes ==
    {CreatedAt + k * HEARTBEAT_INTERVAL + d :
        k \in 1..MaxBeats, d \in {-1, 0, 1}}

BeatHorizon == CreatedAt + MaxBeats * HEARTBEAT_INTERVAL + 1

BeatAdvance ==
    /\ \E t \in BeatTimes : AdvanceTo(t)
    /\ outbox' = <<>>
    /\ UNCHANGED <<hiveVars, storeVars, topology, healing_rules,
                   autonomy_level, coordinator, problem_id_counter>>

\* one call of hive_coordinator_process_cycle on the reading of the clock
BeatTick ==
    /\ last.op = "Advance"
    /\ \E n2 \in {hive_coordinator_process_cycle(Node, now)} :
           /\ coordinator' = n2.coordinator
           /\ atomspace' = n2.atomspace
           /\ topology' = n2.topology
           /\ healing_rules' = n2.healing_rules
           /\ autonomy_level' = n2.autonomy_level
           /\ problem_id_counter' = n2.problem_id_counter
           /\ outbox' = n2.outbox
    /\ last' = [op |-> "Tick"]
    /\ UNCHANGED <<hiveVars, now, replica, store_ops>>

NextHeartbeat ==
    \/ BeatAdvance
    \/ BeatTick

\* the steps of BeatTick among the steps of NextHeartbeat: the cycle is
\* called on a fresh reading of the clock (BeatTick is enabled exactly
\* when a reading is fresh, and no other step leaves last.op = "Tick")
BeatTickCalled ==
    /\ last.op = "Advance"
    /\ last' = [op |-> "Tick"]

\* the cycle keeps being called and time keeps growing
SpecHeartbeat ==
    /\ Init
    /\ [][NextHeartbeat]_vars
    /\ WF_last(BeatTickCalled)
    /\ WF_vars(BeatAdvance)

\* C35: a cycle sends a heartbeat only when 30 s or more have passed since
\* the cycle of the previous heartbeat (since the creation, for the first
\* one) and notes its own time, which nothing else changes; and when the
\* cycle keeps being called while time grows, every reading of the clock
\* 30 s or more after the noted time leads to a heartbeat, and heartbeats
\* go on until the clock cannot reach 30 s past the last one any more.
C35_HeartbeatSpacingAndLiveness ==
    /\ [][/\ (last'.op = "Tick" /\ Sent(outbox', HIVE_MSG_HEARTBEAT) # {})
             => /\ now - coordinator.last_heartbeat >= 30
                /\ now >= CreatedAt + 30
                /\ coordinator'.last_heartbeat = now
          /\ coordinator'.last_heartbeat # coordinator.last_heartbeat
             => /\ last'.op = "Tick"
                /\ Sent(outbox', HIVE_MSG_HEARTBEAT) # {}]_vars
    /\ (now - coordinator.last_heartbeat >= 30)
           ~> (last.op = "Tick" /\ coordinator.last_heartbeat = now)
    /\ <>[](coordinator.last_heartbeat + 30 > BeatHorizon)

\* the third heartbeat of the node, 90 s after the creation
C35_Witness ==
    /\ last.op = "Tick"
    /\ now = CreatedAt + 3 * HEARTBEAT_INTERVAL
    /\ coordinator.last_heartbeat = now
    /\ \E k \in Sent(outbox, HIVE_MSG_HEARTBEAT) :
           outbox[k].sequence_number >= 3

(***************************************************************************)
(* Knowledge syncs in a row while the health of the peer goes up and       *)
(* down, on stores of several sizes.                                       *)
(***************************************************************************)
MaxSyncs == 3

InitOscillation ==
    /\ now = CreatedAt
    /\ \E k \in AtomCounts : atomspace = StoreOfSize(k)
    /\ replica = atomspace_create
    /\ store_ops = 0
    /\ last = [op |-> "create"]
    /\ topology = topology_add_node(topology_create, PEER_ID,
                                    <<"remote_node">>)
    /\ healing_rules = DefaultRules
    /\ autonomy_level = InitialAutonomy
    /\ coordinator = hive_coordinator_create(NODE_ID, CreatedAt)
    /\ problem_id_counter = 1
    /\ outbox = <<>>
    /\ InitHive

\* coordinator->update_collective_knowledge(coordinator), as the cycle and
\* the application call it; every call writes to the store
KnowledgeSync ==
    /\ store_ops < MaxSyncs
    /\ \E n2 \in {update_collective_knowledge_impl(Node, now)} :
           /\ coordinator' = n2.coordinator
           /\ atomspace' = n2.atomspace
           /\ topology' = n2.topology
           /\ healing_rules' = n2.healing_rules
           /\ autonomy_level' = n2.autonomy_level
           /\ problem_id_counter' = n2.problem_id_counter
           /\ outbox' = n2.outbox
    /\ store_ops' = store_ops + 1
    /\ last' = [op |-> "KnowledgeSync",
                before |-> coordinator.collective_intelligence_score]
    /\ UNCHANGED <<hiveVars, now, replica>>

NextOscillation ==
    \/ \E h \in HealthGrid : UpdateHealth(PEER_ID, h)
    \/ KnowledgeSync

SpecOscillation == InitOscillation /\ [][NextOscillation]_vars

AboveHigh(e) == RGt(e, R(8, 10))

BelowLow(e) == RLt(e, R(3, 10))

FailingValues == {R(1, 10), Zero}

FailureReports == FailingValues \cup {Half, One}

NextFailure ==
    \/ \E p \in Peers :
           Dispatch(PeerMessage(p, HIVE_MSG_HEARTBEAT, NoData, 0))
    \/ \E p \in Peers, h \in FailureReports : UpdateHealth(p, h)

SpecFailure == Init /\ [][NextFailure]_vars

\* the nodes of topo that count as healthy, other than the node id
OtherHealthy(topo, id) ==
    {k \in 1..Len(topo.nodes) :
        /\ topo.nodes[k].node_id # id
        /\ RGt(topo.nodes[k].health_score, HealthyAbove)}

\* C37 as stated: an update of a node's health to 0.1 or 0.0 never raises
\* overall_health, and lowers it when the node counted as healthy before
\* and other healthy nodes remain.
C37_FailureLowersHealth ==
    [][(last'.op = "UpdateHealth" /\ last'.health \in FailingValues) =>
        LET i == topology_find_node(topology, last'.id)
        IN  /\ RLe(topology'.overall_health, topology.overall_health)
            /\ (/\ i # 0
                /\ RGt(topology.nodes[i].health_score, HealthyAbove)
                /\ OtherHealthy(topology', last'.id) # {})
               => RLt(topology'.overall_health,
                      topology.overall_health)]_vars

(***************************************************************************)
(* Envelopes whose data_length is not the size of the packet their type    *)
(* announces: one byte short or long, or the size of the other packet.     *)
(***************************************************************************)
WrongLengths(type) ==
    IF type = HIVE_MSG_KNOWLEDGE_SHARE
    THEN {SIZEOF_KNOWLEDGE_PACKET - 1, SIZEOF_KNOWLEDGE_PACKET + 1,
          SIZEOF_HEALING_REQUEST}
    ELSE {SIZEOF_HEALING_REQUEST - 1, SIZEOF_HEALING_REQUEST + 1,
          SIZEOF_KNOWLEDGE_PACKET}

\* the packets of Inbound, sent with a wrong data_length
WrongLength ==
    {[m EXCEPT !.data_length = length] :
        m \in {i \in Inbound :
                  /\ i.type \in {HIVE_MSG_KNOWLEDGE_SHARE,
                                 HIVE_MSG_HEALING_REQUEST}
                  /\ i.data # NoData},
        length \in WrongLengths(HIVE_MSG_KNOWLEDGE_SHARE)
                       \cup WrongLengths(HIVE_MSG_HEALING_REQUEST)}
    \ Inbound

NextMalformed ==
    \/ \E m \in Inbound : Dispatch(m)
    \/ \E m \in WrongLength : Dispatch(m)

SpecMalformed == Init /\ [][NextMalformed]_vars

\* the payload of a KnowledgeShare or HealingRequest has not the length
\* of its packet
HasWrongLength(message) ==
    \/ /\ message.type = HIVE_MSG_KNOWLEDGE_SHARE
       /\ message.data_length # SIZEOF_KNOWLEDGE_PACKET
    \/ /\ message.type = HIVE_MSG_HEALING_REQUEST
       /\ message.data_length # SIZEOF_HEALING_REQUEST

\* C39: the dispatch of a KnowledgeShare or HealingRequest envelope whose
\* data_length is not the size of its packet changes neither the store nor
\* the topology nor the coordinator (its sequence counter included), and
\* sends nothing.
C39_WrongLengthLeavesNoTrace ==
    [][(last'.op = "Dispatch" /\ HasWrongLength(last'.message)) =>
        /\ atomspace' = atomspace
        /\ topology' = topology
        /\ coordinator' = coordinator
        /\ healing_rules' = healing_rules
        /\ autonomy_level' = autonomy_level
        /\ problem_id_counter' = problem_id_counter
        /\ outbox' = <<>>]_vars

\* a share one byte short, with a packet in it, dispatched by a node that
\* has facts, knows its peer and has sent a response
C39_Witness ==
    /\ last.op = "Dispatch"
    /\ last.message.type = HIVE_MSG_KNOWLEDGE_SHARE
    /\ last.message.data # NoData
    /\ last.message.data_length = SIZEOF_KNOWLEDGE_PACKET - 1
    /\ atomspace.atom_count > 0
    /\ topology.node_count > 0
    /\ coordinator.sequence_counter > 0
    /\ outbox = <<>>

\* C38: the sequence counter starts at 0 and every operation numbers the
\* envelopes it sends with the next numbers after the counter, one each,
\* and leaves the counter at the last of them, so the counter is the
\* number of envelopes sent and the n-th envelope carries n, whichever
\* operation sends it; a dispatch moves the counter exactly when the
\* envelope is a HealingRequest with a payload of the size of a request,
\* and then by one.
C38_SequenceGapFree ==
    /\ coordinator.sequence_counter = 0
    /\ [][/\ \A i \in 1..Len(outbox') :
                 outbox'[i].sequence_number
                     = coordinator.sequence_counter + i
          /\ coordinator'.sequence_counter
                 = coordinator.sequence_counter + Len(outbox')
          /\ last'.op = "Dispatch"
                 => /\ coordinator'.sequence_counter
                           = IF IsRequestEnvelope(last'.message)
                             THEN coordinator.sequence_counter + 1
                             ELSE coordinator.sequence_counter
                    /\ last'.message \in Inbound]_vars

\* the third envelope of the node is the response to a request of the
\* peer, after a heartbeat and a healing request of its own
C38_Witness ==
    /\ last.op = "Dispatch"
    /\ IsRequestEnvelope(last.message)
    /\ last.message.sequence_number = 1
    /\ Len(outbox) = 1
    /\ IsResponseEnvelope(outbox[1])
    /\ outbox[1].sequence_number = 3
    /\ coordinator.sequence_counter = 3
    /\ coordinator.last_heartbeat > CreatedAt
    /\ problem_id_counter > 1

====
